---- MODULE Spec2Model ----
(***************************************************************************)
(* Herald: game state synchronisation and event-log engine.                *)
(*                                                                         *)
(* One game session is modelled: its row (game), its players, their units  *)
(* with the per-game unit state, the event log, the wall clock and the     *)
(* last response of the REST API.  Identifiers (UUIDs in the source) are   *)
(* small positive integers; 0 (NoId) is the null reference.                *)
(*                                                                         *)
(* Optional request fields (Optional[...] = None in the pydantic schemas)  *)
(* are sets with at most one element: {} is None, {v} is the value v.      *)
(*                                                                         *)
(* created_at of an event row is the database's now() at the transaction   *)
(* that inserted it: all rows inserted by one request carry the same       *)
(* timestamp, rows of different requests carry increasing timestamps.      *)
(* An event therefore has created_at (the clock, in seconds) and txn (the  *)
(* rank of its transaction among those still in the log).                  *)
(***************************************************************************)
EXTENDS Integers, Sequences, FiniteSets, TLC

VARIABLES game, players, units, events, now, ticks, room, socks, resp, reqs

vars == <<game, players, units, events, now, ticks, room, socks, resp, reqs>>

-----------------------------------------------------------------------------
(* Bounds of the model *)

MaxUnits == 3
MaxEvents == 10
MaxRoundEvents == 4
MaxExpiryEvents == 3
MaxVpEvents == 5
MaxDestroyEvents == 9
MaxActivateEvents == 5
MaxWoundEvents == 5
MaxWoundUnits == 1
MaxTokenEvents == 4
MaxSharedEvents == 6
MaxNotifyEvents == 3
MaxStartEvents == 6
MaxNotifyUnits == 1
MaxHeroEvents == 7
MaxDetachEvents == 6
MaxClearEvents == 6
MaxReadEvents == 3
MaxCodes == 3
MaxBulkEvents == 6
MaxActivityEvents == 4
MaxAttachEvents == 5
MaxTransportEvents == 6
MaxJoinEvents == 7
MaxTicks == 2
MaxWounds == 3
MaxDelta == 2
MaxRound == 3
MaxSocks == 2

(* Program constants *)

MaxPlayers == 2
MinRound == 1
MinVictoryPoints == 0
MaxSpellTokens == 6
GraceSeconds == 30
MultiplayerExpirySeconds == 3600
SoloExpirySeconds == 2592000

NoId == 0
NoTime == -1
NoVal == -1

GameStatus == {"lobby", "in_progress", "paused", "completed", "expired"}
DeploymentStatus == {"deployed", "in_ambush", "in_reserve", "embarked", "destroyed"}

PlayerIds == 1..MaxPlayers
UnitIds == 1..MaxUnits
SockIds == 1..MaxSocks

-----------------------------------------------------------------------------
(* Helpers *)

IsSome(x) == x # {}
Val(x) == CHOOSE v \in x : TRUE

Max(a, b) == IF a >= b THEN a ELSE b
Min(a, b) == IF a <= b THEN a ELSE b

\* the j-th smallest element of a finite set of integers
NthOf(S, j) == CHOOSE i \in S : Cardinality({m \in S : m < i}) = j - 1

\* the log without the rows at the positions in S (session.delete of each)
RemoveIdx(log, S) ==
    LET keep == {i \in 1..Len(log) : i \notin S}
    IN [j \in 1..Cardinality(keep) |-> log[NthOf(keep, j)]]

\* positions of the rows of the log that satisfy a filter
Matching(log, P(_)) == {i \in 1..Len(log) : P(log[i])}

\* Every result that "ORDER BY created_at DESC LIMIT k" can return over the
\* rows at positions M: k rows (all of M when it has fewer), none of them
\* older than a row left out.  Rows with equal created_at (one transaction)
\* are returned in an order the database does not define.
TopK(log, M, k) ==
    {S \in SUBSET M :
        /\ Cardinality(S) = Min(k, Cardinality(M))
        /\ \A i \in S, j \in M \ S : log[j].txn <= log[i].txn}

\* the timestamp rank of the transaction that is about to insert rows
NextTxn(log) ==
    IF log = <<>> THEN 1
    ELSE 1 + (CHOOSE t \in {log[i].txn : i \in 1..Len(log)} :
                 \A i \in 1..Len(log) : log[i].txn <= t)

\* ranks are kept dense: only their order is observable
Normalize(log) ==
    LET T == {log[i].txn : i \in 1..Len(log)}
    IN [i \in 1..Len(log) |->
           [log[i] EXCEPT !.txn = Cardinality({t \in T : t <= log[i].txn})]]

Event(type, player, unit, before, txn) ==
    [event_type |-> type, player_id |-> player, target_unit_id |-> unit,
     before |-> before, created_at |-> now, txn |-> txn]

\* log_event / session.add(GameEvent(...)): one more row in this transaction
LogEvent(log, type, player, unit, before, txn) ==
    Append(log, Event(type, player, unit, before, txn))

Response(op, result, id, data) ==
    [op |-> op, result |-> result, id |-> id, data |-> data]

NoData == [none |-> TRUE]

-----------------------------------------------------------------------------
(* Models *)

\* generate_join_code: the codes over its alphabet
JoinCodes == 1..MaxCodes

\* code is the join code of the session; codes are the join codes of the
\* other rows of the games table (Game.code is unique)
NoGame ==
    [exists |-> FALSE, status |-> "lobby", is_solo |-> FALSE,
     current_round |-> 1, last_activity_at |-> NoTime,
     code |-> NoId, codes |-> {}]

NewGame(is_solo) ==
    [exists |-> TRUE, status |-> "lobby", is_solo |-> is_solo,
     current_round |-> 1, last_activity_at |-> NoTime,
     code |-> NoId, codes |-> {}]

\* variant: every new player counts as connected
NewPlayerConnected(is_host, is_connected) ==
    [is_host |-> is_host, is_connected |-> TRUE,
     victory_points |-> 0, starting_unit_count |-> 0, starting_points |-> 0,
     has_finished_activations |-> FALSE]

NewPlayer(is_host, is_connected) ==
    [is_host |-> is_host, is_connected |-> is_connected,
     victory_points |-> 0, starting_unit_count |-> 0, starting_points |-> 0,
     has_finished_activations |-> FALSE]

NewUnitState(spell_tokens, deployment) ==
    [wounds_taken |-> 0, activated_this_round |-> FALSE, is_shaken |-> FALSE,
     is_fatigued |-> FALSE, deployment_status |-> deployment,
     transport_id |-> NoId, spell_tokens |-> spell_tokens]

NewUnit(player_id, attached_to, cost, state) ==
    [player_id |-> player_id, attached_to_unit_id |-> attached_to,
     cost |-> cost, state |-> state]

\* Unit.attached_heroes: the units whose attached_to_unit_id is this unit
AttachedHeroes(us, uid) == {h \in DOMAIN us : us[h].attached_to_unit_id = uid}

PlayerUnits(us, p) == {u \in DOMAIN us : us[u].player_id = p}

-----------------------------------------------------------------------------
(* Session lifecycle *)

\* variant: any() in place of all()
AnyDisconnected(ps) == \E i \in 1..Len(ps) : ~ps[i].is_connected

\* all(not p.is_connected for p in game.players)
AllDisconnected(ps) == \A i \in 1..Len(ps) : ~ps[i].is_connected

\* check_and_update_expiration: the status the session has after the check
ExpirationStatus(g, ps, t) ==
    IF g.status = "expired" THEN "expired"
    ELSE IF g.last_activity_at = NoTime THEN g.status
    ELSE IF g.is_solo
         THEN IF t - g.last_activity_at > SoloExpirySeconds
              THEN "expired" ELSE g.status
         ELSE IF /\ AllDisconnected(ps)
                 /\ t - g.last_activity_at > MultiplayerExpirySeconds
              THEN "expired" ELSE g.status

\* variant: the response is built before the expiration check
StaleGraph(g, ps, us) ==
    [status |-> game.status, is_solo |-> g.is_solo,
     current_round |-> g.current_round, players |-> ps, units |-> us]

\* GameWithUnitsResponse: the session with its players and units
EntityGraph(g, ps, us) ==
    [status |-> g.status, is_solo |-> g.is_solo,
     current_round |-> g.current_round, players |-> ps, units |-> us]

\* get_game: the read applies the lazy expiration and commits it
GetGame ==
    /\ game.exists
    /\ game' = [game EXCEPT !.status = ExpirationStatus(game, players, now)]
    /\ resp' = Response("get_game", "ok", NoId,
                        EntityGraph(game', players, units))
    /\ UNCHANGED <<players, units, events, now, ticks, room, socks, reqs>>

\* time passes between two requests
Tick(d) ==
    /\ ticks < MaxTicks
    /\ now' = now + d
    /\ ticks' = ticks + 1
    /\ resp' = Response("tick", "ok", NoId, NoData)
    /\ UNCHANGED <<game, players, units, events, room, socks, reqs>>

\* time passes while a client holds the response to its last request
Wait(d) ==
    /\ ticks < MaxTicks
    /\ now' = now + d
    /\ ticks' = ticks + 1
    /\ UNCHANGED <<game, players, units, events, room, socks, resp, reqs>>

\* create_game when generate_join_code returns c: the session, its host
\* and, in solo mode, the opponent; the insert fails on the unique index
\* when another session has the code, and the handler raises the error
CreateGameWithCode(is_solo, c) ==
    /\ ~game.exists
    /\ IF c \in game.codes
       THEN /\ resp' = Response("create_game", "IntegrityError", NoId,
                                [is_solo |-> is_solo, code |-> c])
            /\ UNCHANGED <<game, players, events>>
       ELSE /\ game' = [NewGame(is_solo) EXCEPT !.code = c,
                                                !.codes = game.codes]
            /\ players' = IF is_solo
                          THEN <<NewPlayer(TRUE, TRUE), NewPlayer(FALSE, TRUE)>>
                          ELSE <<NewPlayer(TRUE, TRUE)>>
            /\ events' = Normalize(LogEvent(events, "game_started", 1, NoId,
                                            NoVal, NextTxn(events)))
            /\ resp' = Response("create_game", "ok", 1,
                                [is_solo |-> is_solo, code |-> c])
    /\ UNCHANGED <<units, now, ticks, room, socks, reqs>>

\* create_game for a session of its own, of which the model keeps the code
CreateOtherGame(c) ==
    /\ LET used == game.codes \cup (IF game.exists THEN {game.code} ELSE {})
       IN IF c \in used
          THEN /\ resp' = Response("create_other_game", "IntegrityError",
                                   NoId, [code |-> c])
               /\ UNCHANGED game
          ELSE /\ resp' = Response("create_other_game", "ok", NoId,
                                   [code |-> c])
               /\ game' = [game EXCEPT !.codes = @ \cup {c}]
    /\ UNCHANGED <<players, units, events, now, ticks, room, socks, reqs>>

\* create_game where no other session exists: every code is free
CreateGame(is_solo) == CreateGameWithCode(is_solo, 1)

\* variant: > in place of >=
GameOverFull(ps) == Len(ps) > MaxPlayers

\* len(game.players) >= 2
GameFull(ps) == Len(ps) >= MaxPlayers

\* join_game
JoinGame ==
    /\ game.exists
    /\ IF game.status # "lobby" \/ GameFull(players)
       THEN /\ resp' = Response("join_game", "ValidationException", NoId, NoData)
            /\ UNCHANGED <<players, events>>
       ELSE /\ Len(events) < MaxEvents
            /\ players' = Append(players, NewPlayer(FALSE, FALSE))
            /\ events' = Normalize(LogEvent(events, "player_joined",
                                            Len(players) + 1, NoId, NoVal,
                                            NextTxn(events)))
            /\ resp' = Response("join_game", "ok", Len(players) + 1, NoData)
    /\ UNCHANGED <<game, units, now, ticks, room, socks, reqs>>

SumCost(us, S) ==
    LET RECURSIVE Sum(_)
        Sum(T) == IF T = {} THEN 0
                  ELSE LET u == CHOOSE x \in T : TRUE
                       IN us[u].cost + Sum(T \ {u})
    IN Sum(S)

\* variant: one player with units is enough in multiplayer mode too
StartGameAnyArmy ==
    /\ game.status = "lobby"
    /\ Len(players) >= (IF game.is_solo THEN 1 ELSE MaxPlayers)
    /\ \E p \in 1..Len(players) : PlayerUnits(units, p) # {}

\* the checks of start_game, in the order the handler makes them
StartGameAllowed ==
    /\ game.status = "lobby"
    /\ IF ~game.is_solo
       THEN /\ Len(players) >= MaxPlayers
            /\ \A p \in 1..Len(players) : PlayerUnits(units, p) # {}
       ELSE /\ Len(players) # 0
            /\ \E p \in 1..Len(players) : PlayerUnits(units, p) # {}

\* start_game
StartGame ==
    /\ game.exists
    /\ IF ~StartGameAllowed
       THEN /\ resp' = Response("start_game", "ValidationException", NoId, NoData)
            /\ UNCHANGED <<game, players, events>>
       ELSE /\ Len(events) < MaxEvents
            /\ game' = [game EXCEPT !.last_activity_at = now,
                                    !.status = "in_progress",
                                    !.current_round = 1]
            /\ players' = [p \in 1..Len(players) |->
                            [players[p] EXCEPT
                               !.starting_unit_count =
                                   Cardinality(PlayerUnits(units, p)),
                               !.starting_points =
                                   SumCost(units, PlayerUnits(units, p))]]
            /\ events' = Normalize(LogEvent(events, "game_started", NoId, NoId,
                                            NoVal, NextTxn(events)))
            /\ resp' = Response("start_game", "ok", NoId, NoData)
    /\ UNCHANGED <<units, now, ticks, room, socks, reqs>>

\* variant: shaken is cleared with the per-round flags
ResetAllFlags(st) ==
    [st EXCEPT !.activated_this_round = FALSE, !.is_fatigued = FALSE,
               !.is_shaken = FALSE]

\* UnitState.reset_for_new_round
ResetForNewRound(st) ==
    [st EXCEPT !.activated_this_round = FALSE, !.is_fatigued = FALSE]

\* update_game_state (bulk round/status update); data.current_round and
\* data.status are optional
UpdateGameState(data) ==
    /\ game.exists
    /\ LET round_up == IsSome(data.current_round)
                       /\ Val(data.current_round) > game.current_round
           g1 == IF IsSome(data.current_round)
                 THEN [game EXCEPT !.current_round = Val(data.current_round)]
                 ELSE game
           t == NextTxn(events)
           e1 == IF round_up
                 THEN LogEvent(events, "round_started", NoId, NoId, NoVal, t)
                 ELSE events
           g2 == IF IsSome(data.status)
                 THEN [g1 EXCEPT !.status = Val(data.status)] ELSE g1
           e2 == IF IsSome(data.status) /\ Val(data.status) = "completed"
                 THEN LogEvent(e1, "game_ended", NoId, NoId, NoVal, t)
                 ELSE e1
       IN /\ Len(e2) <= MaxEvents
          /\ game' = g2
          /\ players' = IF round_up
                        THEN [p \in 1..Len(players) |->
                                [players[p] EXCEPT
                                   !.has_finished_activations = FALSE]]
                        ELSE players
          /\ units' = IF round_up
                      THEN [u \in DOMAIN units |->
                              [units[u] EXCEPT
                                 !.state = ResetForNewRound(units[u].state)]]
                      ELSE units
          /\ events' = Normalize(e2)
          /\ resp' = Response("update_game_state", "ok", NoId, data)
    /\ UNCHANGED <<now, ticks, room, socks, reqs>>

\* max(1, game.current_round + data.delta)
ClampRound(v) == Max(MinRound, v)

\* update_round (the +/- stepper)
UpdateRound(delta) ==
    /\ game.exists
    /\ LET new_round == ClampRound(game.current_round + delta)
           M == Matching(events, LAMBDA e : e.event_type = "round_started")
       IN /\ new_round <= MaxRound
          /\ game' = [game EXCEPT !.last_activity_at = now,
                                  !.current_round = new_round]
          /\ IF delta > 0
             THEN /\ Len(events) < MaxEvents
                  /\ events' = Normalize(LogEvent(events, "round_started", NoId,
                                                  NoId, NoVal, NextTxn(events)))
             ELSE IF delta < 0
             THEN \E S \in TopK(events, M, 1) :
                      events' = Normalize(RemoveIdx(events, S))
             ELSE UNCHANGED events
          /\ resp' = Response("update_round", "ok", NoId,
                              [delta |-> delta,
                               round_before |-> game.current_round])
    /\ UNCHANGED <<players, units, now, ticks, room, socks, reqs>>
-----------------------------------------------------------------------------
(* Victory points *)

\* variant: no lower limit
Unclamped(v) == v

\* max(0, player.victory_points + data.delta)
ClampVictoryPoints(v) == Max(MinVictoryPoints, v)

\* the vp_changed rows of a positive delta, one per point
RECURSIVE LogVpChanged(_, _, _, _, _)
LogVpChanged(log, p, vp_before, n, txn) ==
    IF n = 0 THEN log
    ELSE LogEvent(LogVpChanged(log, p, vp_before, n - 1, txn),
                  "vp_changed", p, NoId, vp_before + n - 1, txn)

\* variant: the rows of every player match
IsAnyVpEvent(e, p) == e.event_type = "vp_changed"

\* .where(event_type == VP_CHANGED).where(player_id == player_id)
IsVpEvent(e, p) == e.event_type = "vp_changed" /\ e.player_id = p

\* what update_victory_points writes, given the victory points it read
WriteVictoryPoints(p, delta, vp_before) ==
    /\ game' = [game EXCEPT !.last_activity_at = now]
    /\ players' = [players EXCEPT ![p].victory_points =
                      ClampVictoryPoints(vp_before + delta)]
    /\ IF delta > 0
       THEN /\ Len(events) + delta <= MaxEvents
            /\ events' = Normalize(LogVpChanged(events, p, vp_before, delta,
                                                NextTxn(events)))
       ELSE IF delta < 0
       THEN \E S \in TopK(events,
                          Matching(events, LAMBDA e : IsVpEvent(e, p)), -delta) :
                events' = Normalize(RemoveIdx(events, S))
       ELSE UNCHANGED events

\* update_victory_points
UpdateVictoryPoints(p, delta) ==
    /\ game.exists
    /\ IF p \notin 1..Len(players)
       THEN /\ resp' = Response("update_victory_points", "NotFound", p,
                                [delta |-> delta])
            /\ UNCHANGED <<game, players, events>>
       ELSE /\ WriteVictoryPoints(p, delta, players[p].victory_points)
            /\ resp' = Response("update_victory_points", "ok", p,
                                [delta |-> delta])
    /\ UNCHANGED <<units, now, ticks, room, socks, reqs>>

-----------------------------------------------------------------------------
(* Unit creation *)

NoProps ==
    [is_hero |-> FALSE, is_caster |-> FALSE, caster_level |-> 0,
     has_ambush |-> FALSE]

\* parse_special_rules: rules is a sequence of [name, rating]; a rating of 0
\* stands for a missing (falsy) rating
RECURSIVE ParseSpecialRules(_)
ParseSpecialRules(rules) ==
    IF rules = <<>> THEN NoProps
    ELSE LET result == ParseSpecialRules(SubSeq(rules, 1, Len(rules) - 1))
             rule == rules[Len(rules)]
         IN IF rule.name = "hero" THEN [result EXCEPT !.is_hero = TRUE]
            ELSE IF rule.name = "caster"
            THEN [result EXCEPT !.is_caster = TRUE,
                                !.caster_level = IF rule.rating # 0
                                                 THEN rule.rating ELSE 1]
            ELSE IF rule.name = "ambush" THEN [result EXCEPT !.has_ambush = TRUE]
            ELSE result

\* spell_tokens of a new UnitState
InitialSpellTokens(props) == IF props.is_caster THEN props.caster_level ELSE 0

InitialDeployment(props) == IF props.has_ambush THEN "in_ambush" ELSE "deployed"

\* a fresh primary key
FreshUnitId(us) == CHOOSE u \in UnitIds \ DOMAIN us :
                       \A v \in UnitIds \ DOMAIN us : u <= v

AddUnit(us, id, unit) ==
    [u \in DOMAIN us \cup {id} |-> IF u = id THEN unit ELSE us[u]]

\* the flags create_unit_manually derives: the request's flags, overridden
\* by the parsed rules where the request leaves a flag unset
ManualProps(data) ==
    LET direct == [is_hero |-> FALSE, is_caster |-> data.is_caster,
                   caster_level |-> IF data.is_caster THEN data.caster_level
                                    ELSE 0,
                   has_ambush |-> data.has_ambush]
        parsed == ParseSpecialRules(data.rules)
    IN IF data.rules = <<>> THEN direct
       ELSE [is_hero |-> parsed.is_hero,
             is_caster |-> IF ~data.is_caster THEN parsed.is_caster
                           ELSE direct.is_caster,
             caster_level |-> IF ~data.is_caster THEN parsed.caster_level
                              ELSE direct.caster_level,
             has_ambush |-> IF ~data.has_ambush THEN parsed.has_ambush
                            ELSE direct.has_ambush]

\* variant: the owner of the parent unit is not looked at
OwnerUnchecked(us, data) == FALSE

\* if parent_unit.player_id != data.player_id
OtherOwner(us, data) ==
    us[data.attached_to_unit_id].player_id # data.player_id

\* create_unit_manually
CreateUnitManually(data) ==
    /\ game.exists
    /\ IF game.status # "lobby"
       THEN /\ resp' = Response("create_unit_manually", "ValidationException",
                                NoId, data)
            /\ UNCHANGED <<players, units, events>>
       ELSE IF data.player_id \notin 1..Len(players)
       THEN /\ resp' = Response("create_unit_manually", "NotFound", NoId, data)
            /\ UNCHANGED <<players, units, events>>
       ELSE IF data.attached_to_unit_id # NoId
               /\ data.attached_to_unit_id \notin DOMAIN units
       THEN /\ resp' = Response("create_unit_manually", "NotFound", NoId, data)
            /\ UNCHANGED <<players, units, events>>
       ELSE IF data.attached_to_unit_id # NoId /\ OtherOwner(units, data)
       THEN /\ resp' = Response("create_unit_manually", "ValidationException",
                                NoId, data)
            /\ UNCHANGED <<players, units, events>>
       ELSE /\ UnitIds \ DOMAIN units # {}
            /\ Len(events) < MaxEvents
            /\ LET id == FreshUnitId(units)
                   props == ManualProps(data)
                   p == data.player_id
               IN /\ units' = AddUnit(units, id,
                        NewUnit(p, data.attached_to_unit_id, data.cost,
                                NewUnitState(InitialSpellTokens(props),
                                             InitialDeployment(props))))
                  /\ players' = [players EXCEPT
                        ![p].starting_unit_count = @ + 1,
                        ![p].starting_points = @ + data.cost]
                  /\ events' = Normalize(LogEvent(events, "custom", p, id, NoVal,
                                                  NextTxn(events)))
                  /\ resp' = Response("create_unit_manually", "ok", id, data)
    /\ UNCHANGED <<game, now, ticks, room, socks, reqs>>

\* import_army, first pass: one unit per descriptor, in order; the result
\* is the units and the ids created, by position in the list
RECURSIVE ImportUnits(_, _, _)
ImportUnits(us, p, army) ==
    IF army = <<>> THEN [units |-> us, ids |-> <<>>]
    ELSE LET prev == ImportUnits(us, p, SubSeq(army, 1, Len(army) - 1))
             unit_data == army[Len(army)]
             props == ParseSpecialRules(unit_data.rules)
             id == FreshUnitId(prev.units)
         IN [units |-> AddUnit(prev.units, id,
                          NewUnit(p, NoId, unit_data.cost,
                                  NewUnitState(InitialSpellTokens(props),
                                               InitialDeployment(props)))),
             ids |-> Append(prev.ids, id)]

\* selection_id_to_unit: the last unit created with that selectionId
SelectionUnit(army, ids, sel) ==
    LET at == {i \in 1..Len(army) : army[i].selectionId = sel}
    IN IF sel = NoId \/ at = {} THEN NoId
       ELSE ids[CHOOSE i \in at : \A j \in at : j <= i]

\* import_army, second pass: link each unit with a joinToUnit to its parent
LinkAttached(us, army, ids) ==
    [u \in DOMAIN us |->
        IF \E i \in 1..Len(ids) :
              /\ ids[i] = u
              /\ army[i].joinToUnit # NoId
              /\ SelectionUnit(army, ids, army[i].joinToUnit) # NoId
        THEN LET i == CHOOSE k \in 1..Len(ids) : ids[k] = u
             IN [us[u] EXCEPT !.attached_to_unit_id =
                    SelectionUnit(army, ids, army[i].joinToUnit)]
        ELSE us[u]]

RECURSIVE ArmyCost(_)
ArmyCost(army) ==
    IF army = <<>> THEN 0
    ELSE army[Len(army)].cost + ArmyCost(SubSeq(army, 1, Len(army) - 1))

\* import_army, with the list the importer returned
ImportArmy(p, army) ==
    /\ game.exists
    /\ IF p \notin 1..Len(players)
       THEN /\ resp' = Response("import_army", "NotFound", p, army)
            /\ UNCHANGED <<game, players, units, events>>
       ELSE /\ Cardinality(DOMAIN units) + Len(army) <= MaxUnits
            /\ Len(events) < MaxEvents
            /\ LET created == ImportUnits(units, p, army)
               IN units' = LinkAttached(created.units, army, created.ids)
            /\ game' = [game EXCEPT !.last_activity_at = now]
            /\ players' = [players EXCEPT
                  ![p].starting_unit_count = @ + Len(army),
                  ![p].starting_points = @ + ArmyCost(army)]
            /\ events' = Normalize(LogEvent(events, "army_imported", p, NoId,
                                            NoVal, NextTxn(events)))
            /\ resp' = Response("import_army", "ok", p, army)
    /\ UNCHANGED <<now, ticks, room, socks, reqs>>
-----------------------------------------------------------------------------
(* Update unit state *)

\* UpdateUnitStateRequest with every field None
NoUpdate ==
    [wounds_taken |-> {}, activated_this_round |-> {}, is_shaken |-> {},
     is_fatigued |-> {}, deployment_status |-> {}, transport_id |-> {},
     spell_tokens |-> {}]

\* The handler works on the rows it loaded: the units, the log with the
\* rows added so far, and the error raised, if any.
Loaded(us, log) == [units |-> us, events |-> log, error |-> "none"]

\* one row of the given type for each of the units in H (by ascending id;
\* the rows of one transaction have no order of their own)
RECURSIVE LogEach(_, _, _, _, _)
LogEach(log, us, H, type, txn) ==
    IF H = {} THEN log
    ELSE LET h == CHOOSE x \in H : \A y \in H : y <= x
         IN LogEvent(LogEach(log, us, H \ {h}, type, txn),
                     type, us[h].player_id, h, NoVal, txn)

\* variant: every row carries the wounds before the request
WoundsAtStart(wounds_before, i) == wounds_before

\* wounds_at_this_point = previous_state["wounds_taken"] + i
WoundsAtThisPoint(wounds_before, i) == wounds_before + i

\* details["wounds_after"] of a unit_wounded row
WoundsAfter(e) == e.before + 1

\* the unit_wounded rows of an increase, one per wound
RECURSIVE LogWounded(_, _, _, _, _, _)
LogWounded(log, p, uid, wounds_before, n, txn) ==
    IF n = 0 THEN log
    ELSE LogEvent(LogWounded(log, p, uid, wounds_before, n - 1, txn),
                  "unit_wounded", p, uid,
                  WoundsAtThisPoint(wounds_before, n - 1), txn)

IsWoundEvent(e, uid) ==
    e.event_type = "unit_wounded" /\ e.target_unit_id = uid

\* variant: > in place of >=
StrictlyWithinGrace(e, t) == e.created_at > t - GraceSeconds

\* variant: every selected row counts as recent
AlwaysWithinGrace(e, t) == TRUE

\* event.created_at >= current_time - timedelta(seconds=30)
WithinGrace(e, t) == e.created_at >= t - GraceSeconds

\* the unit_healed rows, one per selected wound row outside the grace window
RECURSIVE LogHealed(_, _, _, _, _)
LogHealed(log, p, uid, n, txn) ==
    IF n = 0 THEN log
    ELSE LogEvent(LogHealed(log, p, uid, n - 1, txn),
                  "unit_healed", p, uid, NoVal, txn)

\* wounds_taken; S is the result of the query for the most recent
\* unit_wounded rows of the unit
WoundsUpdate(st, uid, data, S, txn) ==
    LET unit == st.units[uid]
        old == unit.state.wounds_taken
    IN IF data.wounds_taken = {} \/ Val(data.wounds_taken) = old THEN st
       ELSE LET new == Val(data.wounds_taken)
                s1 == [st EXCEPT !.units[uid].state.wounds_taken = new]
            IN IF new - old > 0
               THEN [s1 EXCEPT !.events =
                        LogWounded(st.events, unit.player_id, uid, old,
                                   new - old, txn)]
               ELSE LET recent == {i \in S : WithinGrace(st.events[i], now)}
                    IN [s1 EXCEPT !.events =
                           LogHealed(RemoveIdx(st.events, recent),
                                     unit.player_id, uid,
                                     Cardinality(S \ recent), txn)]

\* the rows the wound query can return for this request, given the units
\* the handler loaded
WoundQuery(us, log, uid, data) ==
    IF /\ IsSome(data.wounds_taken)
       /\ Val(data.wounds_taken) < us[uid].state.wounds_taken
    THEN TopK(log, Matching(log, LAMBDA e : IsWoundEvent(e, uid)),
              us[uid].state.wounds_taken - Val(data.wounds_taken))
    ELSE {{}}

\* variant: every attached hero is activated and logged again
HeroesAttached(us, uid) == AttachedHeroes(us, uid)

\* if attached_hero.state and not attached_hero.state.activated_this_round
HeroesToActivate(us, uid) ==
    {h \in AttachedHeroes(us, uid) : ~us[h].state.activated_this_round}

\* activated_this_round, with the guard for attached units
ActivationUpdate(st, uid, data, txn) ==
    LET unit == st.units[uid]
    IN IF \/ data.activated_this_round = {}
          \/ Val(data.activated_this_round) = unit.state.activated_this_round
       THEN st
       ELSE IF Val(data.activated_this_round) /\ unit.attached_to_unit_id # NoId
       THEN [st EXCEPT !.error = "ValidationException"]
       ELSE IF ~Val(data.activated_this_round)
       THEN [st EXCEPT !.units[uid].state.activated_this_round = FALSE]
       ELSE LET H == HeroesToActivate(st.units, uid)
            IN [st EXCEPT
                  !.units = [u \in DOMAIN st.units |->
                               IF u = uid \/ u \in H
                               THEN [st.units[u] EXCEPT
                                       !.state.activated_this_round = TRUE]
                               ELSE st.units[u]],
                  !.events = LogEach(LogEvent(st.events, "unit_activated",
                                              unit.player_id, uid, NoVal, txn),
                                     st.units, H, "unit_activated", txn)]

\* variant: every attached hero is set and logged, whatever its flag
HeroesShared(us, uid, v) == AttachedHeroes(us, uid)

\* if attached_hero.state and attached_hero.state.is_shaken != data.is_shaken
HeroesToSync(us, uid, v) ==
    {h \in AttachedHeroes(us, uid) : us[h].state.is_shaken # v}

\* is_shaken, synchronised to the attached heroes
ShakenUpdate(st, uid, data, txn) ==
    LET unit == st.units[uid]
    IN IF data.is_shaken = {} \/ Val(data.is_shaken) = unit.state.is_shaken
       THEN st
       ELSE LET v == Val(data.is_shaken)
                type == IF v THEN "status_shaken" ELSE "status_shaken_cleared"
                H == HeroesToSync(st.units, uid, v)
            IN [st EXCEPT
                  !.units = [u \in DOMAIN st.units |->
                               IF u = uid \/ u \in H
                               THEN [st.units[u] EXCEPT !.state.is_shaken = v]
                               ELSE st.units[u]],
                  !.events = LogEach(LogEvent(st.events, type, unit.player_id,
                                              uid, NoVal, txn),
                                     st.units, H, type, txn)]

\* is_fatigued
FatiguedUpdate(st, uid, data, txn) ==
    IF data.is_fatigued = {} THEN st
    ELSE LET s1 == [st EXCEPT !.units[uid].state.is_fatigued =
                                 Val(data.is_fatigued)]
         IN IF Val(data.is_fatigued)
            THEN [s1 EXCEPT !.events = LogEvent(st.events, "status_fatigued",
                                                NoId, uid, NoVal, txn)]
            ELSE s1

\* variant: the hero's own flag is not consulted
ShakenWithParent(us, uid) ==
    {h \in AttachedHeroes(us, uid) : us[uid].state.is_shaken}

\* if parent_was_shaken and not hero.state.is_shaken
NewlyShaken(us, uid) ==
    {h \in AttachedHeroes(us, uid) :
        us[uid].state.is_shaken /\ ~us[h].state.is_shaken}

\* the detachment of the attached heroes of a destroyed unit: each hero
\* that was not shaken while the parent was gets status_shaken, and every
\* hero gets unit_detached
DetachOnDestroy(st, uid, txn) ==
    LET H == AttachedHeroes(st.units, uid)
        parent_was_shaken == st.units[uid].state.is_shaken
        newly == NewlyShaken(st.units, uid)
    IN [st EXCEPT
          !.units = [u \in DOMAIN st.units |->
                       IF u \in H
                       THEN [st.units[u] EXCEPT
                               !.state.is_shaken = @ \/ parent_was_shaken,
                               !.attached_to_unit_id = NoId]
                       ELSE st.units[u]],
          !.events = LogEach(LogEach(st.events, st.units, newly,
                                     "status_shaken", txn),
                             st.units, H, "unit_detached", txn)]

\* deployment_status
DeploymentUpdate(st, uid, data, txn) ==
    LET unit == st.units[uid]
        old_status == unit.state.deployment_status
    IN IF data.deployment_status = {} \/ Val(data.deployment_status) = old_status
       THEN st
       ELSE LET new == Val(data.deployment_status)
                s1 == [st EXCEPT !.units[uid].state.deployment_status = new]
            IN IF new = "deployed" /\ old_status = "in_ambush"
               THEN [s1 EXCEPT !.events = LogEvent(st.events, "unit_deployed",
                                                   NoId, uid, NoVal, txn)]
               ELSE IF new = "destroyed"
               THEN DetachOnDestroy(
                        [s1 EXCEPT !.events = LogEvent(st.events,
                                       "unit_destroyed", NoId, uid, NoVal, txn)],
                        uid, txn)
               ELSE s1

\* transport_id: a value embarks the unit; no value disembarks a unit that
\* has a transport
TransportUpdate(st, uid, data, txn) ==
    IF IsSome(data.transport_id)
    THEN [st EXCEPT !.units[uid].state.transport_id = Val(data.transport_id),
                    !.units[uid].state.deployment_status = "embarked",
                    !.events = LogEvent(st.events, "unit_embarked", NoId, uid,
                                        NoVal, txn)]
    ELSE IF st.units[uid].state.transport_id # NoId
    THEN [st EXCEPT !.units[uid].state.transport_id = NoId,
                    !.units[uid].state.deployment_status = "deployed",
                    !.events = LogEvent(st.events, "unit_disembarked", NoId, uid,
                                        NoVal, txn)]
    ELSE st

\* min(6, max(0, data.spell_tokens))
ClampSpellTokens(v) == Min(MaxSpellTokens, Max(0, v))

\* spell_tokens
SpellTokensUpdate(st, uid, data, txn) ==
    LET old_tokens == st.units[uid].state.spell_tokens
    IN IF data.spell_tokens = {} \/ Val(data.spell_tokens) = old_tokens THEN st
       ELSE LET new == ClampSpellTokens(Val(data.spell_tokens))
                s1 == [st EXCEPT !.units[uid].state.spell_tokens = new]
            IN IF new - old_tokens > 0
               THEN [s1 EXCEPT !.events = LogEvent(st.events,
                        "spell_tokens_gained", NoId, uid, NoVal, txn)]
               ELSE IF new - old_tokens < 0
               THEN [s1 EXCEPT !.events = LogEvent(st.events,
                        "spell_tokens_spent", NoId, uid, NoVal, txn)]
               ELSE s1

\* the sub-updates of update_unit_state in the handler's order; the ones
\* after a raised error are not reached
UnitStateUpdates(us, log, uid, data, S) ==
    LET txn == NextTxn(log)
        s1 == WoundsUpdate(Loaded(us, log), uid, data, S, txn)
        s2 == ActivationUpdate(s1, uid, data, txn)
    IN IF s2.error # "none" THEN s2
       ELSE SpellTokensUpdate(
                TransportUpdate(
                    DeploymentUpdate(
                        FatiguedUpdate(
                            ShakenUpdate(s2, uid, data, txn),
                            uid, data, txn),
                        uid, data, txn),
                    uid, data, txn),
                uid, data, txn)

\* update_unit_state: nothing is committed when the handler raises
UpdateUnitState(uid, data) ==
    /\ game.exists
    /\ IF uid \notin DOMAIN units
       THEN /\ resp' = Response("update_unit_state", "NotFound", uid, data)
            /\ UNCHANGED <<game, units, events>>
       ELSE \E S \in WoundQuery(units, events, uid, data) :
              LET st == UnitStateUpdates(units, events, uid, data, S)
              IN IF st.error # "none"
                 THEN /\ resp' = Response("update_unit_state", st.error, uid, data)
                      /\ UNCHANGED <<game, units, events>>
                 ELSE /\ Len(st.events) <= MaxEvents
                      /\ game' = [game EXCEPT !.last_activity_at = now]
                      /\ units' = st.units
                      /\ events' = Normalize(st.events)
                      /\ resp' = Response("update_unit_state", "ok", uid, data)
    /\ UNCHANGED <<players, now, ticks, room, socks, reqs>>

\* variant: a unit without a parent is detached all the same
DetachAlways(us, uid) == FALSE

\* if not unit.attached_to_unit_id
NotAttached(us, uid) == us[uid].attached_to_unit_id = NoId

\* detach_unit
DetachUnit(uid) ==
    /\ game.exists
    /\ IF uid \notin DOMAIN units
       THEN /\ resp' = Response("detach_unit", "NotFound", uid, NoData)
            /\ UNCHANGED <<units, events>>
       ELSE IF NotAttached(units, uid)
       THEN /\ resp' = Response("detach_unit", "ValidationException", uid, NoData)
            /\ UNCHANGED <<units, events>>
       ELSE /\ Len(events) < MaxEvents
            /\ units' = [units EXCEPT ![uid].attached_to_unit_id = NoId]
            /\ events' = Normalize(LogEvent(events, "unit_detached",
                                            units[uid].player_id, uid, NoVal,
                                            NextTxn(events)))
            /\ resp' = Response("detach_unit", "ok", uid, NoData)
    /\ UNCHANGED <<game, players, now, ticks, room, socks, reqs>>

\* ON DELETE SET NULL: the references that other rows hold to the deleted
\* units D (Unit.attached_to_unit_id, UnitState.transport_id)
ReleaseUnit(unit, D) ==
    [unit EXCEPT !.attached_to_unit_id = IF @ \in D THEN NoId ELSE @,
                 !.state.transport_id = IF @ \in D THEN NoId ELSE @]

\* ON DELETE SET NULL of GameEvent.target_unit_id
ReleaseEvents(log, D) ==
    [i \in 1..Len(log) |->
        [log[i] EXCEPT !.target_unit_id = IF @ \in D THEN NoId ELSE @]]

\* clear_all_units: the response carries the count and the points that the
\* details of the custom event record
ClearAllUnits(p) ==
    /\ game.exists
    /\ IF game.status # "lobby"
       THEN /\ resp' = Response("clear_all_units", "ValidationException", p,
                                NoData)
            /\ UNCHANGED <<players, units, events>>
       ELSE IF p \notin 1..Len(players)
       THEN /\ resp' = Response("clear_all_units", "NotFound", p, NoData)
            /\ UNCHANGED <<players, units, events>>
       ELSE LET D == PlayerUnits(units, p)
            IN /\ Len(events) < MaxEvents
               /\ units' = [u \in DOMAIN units \ D |-> ReleaseUnit(units[u], D)]
               /\ players' = [players EXCEPT ![p].starting_unit_count = 0,
                                             ![p].starting_points = 0]
               /\ events' = Normalize(LogEvent(ReleaseEvents(events, D),
                                               "custom", p, NoId, NoVal,
                                               NextTxn(events)))
               /\ resp' = Response("clear_all_units", "ok", p,
                                   [units_cleared |-> Cardinality(D),
                                    points_cleared |-> SumCost(units, D)])
    /\ UNCHANGED <<game, now, ticks, room, socks, reqs>>
-----------------------------------------------------------------------------
(* Realtime connections *)

NoRoom == [connections |-> <<>>, anonymous |-> {}]

\* GameRoom.broadcast in progress: which loop it is in, the size its
\* iterator saw when it started, and the sends made so far as pairs
\* <<player id or NoId, connection>>.  start: the entries of the room
\* when it was called.  orphan: the room object it iterates has been
\* removed from the manager.
NoFrame ==
    [phase |-> "none", exclude |-> NoId, size |-> 0, start |-> {},
     delivered |-> {}, failed |-> {}, orphan |-> FALSE]

\* a connection and its handler: open while the handler runs, gone once
\* sends to it raise, pc the handler's position, after what it does when
\* the broadcast it awaits is over
NoSock ==
    [open |-> FALSE, player_id |-> NoId, gone |-> FALSE, pc |-> "none",
     snapshot |-> FALSE, after |-> "none", frame |-> NoFrame]

Put(f, k, v) == [x \in DOMAIN f \cup {k} |-> IF x = k THEN v ELSE f[x]]
Pop(f, k) == [x \in DOMAIN f \ {k} |-> f[x]]

\* variant: the connection stays in the anonymous set
AddConnectionKeepAnonymous(r, p, ws) ==
    [connections |-> Put(r.connections, p, ws), anonymous |-> r.anonymous]

\* GameRoom.add_connection
AddConnection(r, p, ws) ==
    [connections |-> Put(r.connections, p, ws),
     anonymous |-> r.anonymous \ {ws}]

\* GameRoom.remove_connection
RemoveConnection(r, p, ws) ==
    [connections |-> IF p # NoId THEN Pop(r.connections, p) ELSE r.connections,
     anonymous |-> r.anonymous \ {ws}]

\* UPDATE players SET is_connected = v WHERE id = p
SetConnected(ps, p, v) ==
    [i \in 1..Len(ps) |-> IF i = p THEN [ps[i] EXCEPT !.is_connected = v]
                          ELSE ps[i]]

\* a new connection is a new object: no entry of the room refers to it
Unreferenced(r, ws) ==
    /\ ws \notin r.anonymous
    /\ \A p \in DOMAIN r.connections : r.connections[p] # ws

\* game_websocket up to its message loop: accept, register as anonymous
WsConnect(ws) ==
    /\ game.exists
    /\ ~socks[ws].open
    /\ Unreferenced(room, ws)
    /\ socks' = [socks EXCEPT ![ws] = [NoSock EXCEPT !.open = TRUE,
                                                     !.pc = "receive",
                                                     !.snapshot = TRUE]]
    /\ room' = [room EXCEPT !.anonymous = @ \cup {ws}]
    /\ resp' = Response("ws_connect", "ok", ws, NoData)
    /\ UNCHANGED <<game, players, units, events, now, ticks, reqs>>

\* game_websocket, a "join" message naming player p
WsJoin(ws, p) ==
    /\ socks[ws].open
    /\ socks' = [socks EXCEPT ![ws].player_id = p]
    /\ room' = AddConnection(room, p, ws)
    /\ players' = SetConnected(players, p, TRUE)
    /\ resp' = Response("ws_join", "ok", ws, [player_id |-> p])
    /\ UNCHANGED <<game, units, events, now, ticks, reqs>>

\* game_websocket, the finally block
WsClose(ws) ==
    /\ socks[ws].open
    /\ room' = RemoveConnection(room, socks[ws].player_id, ws)
    /\ players' = IF socks[ws].player_id # NoId
                  THEN SetConnected(players, socks[ws].player_id, FALSE)
                  ELSE players
    /\ socks' = [socks EXCEPT ![ws] = NoSock]
    /\ resp' = Response("ws_close", "ok", ws, NoData)
    /\ UNCHANGED <<game, units, events, now, ticks, reqs>>

-----------------------------------------------------------------------------
(* Concurrent requests: a handler reads the session when it starts and     *)
(* writes when it commits; other requests run between the two.  The rows   *)
(* it loaded are kept with the log as it was at that moment.               *)

Idle == [pc |-> "idle", op |-> "none", id |-> NoId, data |-> NoData,
         seen_players |-> <<>>, seen_units |-> <<>>, seen_events |-> <<>>]

\* join_game up to the first await after the load: the game and its
\* players as loaded
BeginJoinGame(r) ==
    /\ reqs[r].pc = "idle"
    /\ game.exists
    /\ reqs' = [reqs EXCEPT ![r] =
                  [pc |-> "loaded", op |-> "join_game", id |-> NoId,
                   data |-> [status |-> game.status],
                   seen_players |-> players, seen_units |-> units,
                   seen_events |-> events]]
    /\ UNCHANGED <<game, players, units, events, now, ticks, room, socks, resp>>

\* join_game from there to the commit: the checks look at the rows
\* loaded, the INSERT adds a row to the table as it is
CommitJoinGame(r) ==
    /\ reqs[r].pc = "loaded"
    /\ reqs[r].op = "join_game"
    /\ IF reqs[r].data.status # "lobby" \/ GameFull(reqs[r].seen_players)
       THEN /\ resp' = Response("join_game", "ValidationException", NoId, NoData)
            /\ UNCHANGED <<players, events>>
       ELSE /\ Len(events) < MaxEvents
            /\ players' = Append(players, NewPlayer(FALSE, FALSE))
            /\ events' = Normalize(LogEvent(events, "player_joined",
                                            Len(players) + 1, NoId, NoVal,
                                            NextTxn(events)))
            /\ resp' = Response("join_game", "ok", Len(players) + 1, NoData)
    /\ reqs' = [reqs EXCEPT ![r].pc = "done"]
    /\ UNCHANGED <<game, units, now, ticks, room, socks>>

\* update_victory_points up to the first await after the load
BeginVictoryPoints(r, p, delta) ==
    /\ reqs[r].pc = "idle"
    /\ p \in 1..Len(players)
    /\ reqs' = [reqs EXCEPT ![r] =
                  [pc |-> "loaded", op |-> "update_victory_points", id |-> p,
                   data |-> [delta |-> delta], seen_players |-> players,
                   seen_units |-> units, seen_events |-> events]]
    /\ UNCHANGED <<game, players, units, events, now, ticks, room, socks, resp>>

\* update_victory_points from there to the commit
CommitVictoryPoints(r) ==
    /\ reqs[r].pc = "loaded"
    /\ reqs[r].op = "update_victory_points"
    /\ WriteVictoryPoints(reqs[r].id, reqs[r].data.delta,
                          reqs[r].seen_players[reqs[r].id].victory_points)
    /\ reqs' = [reqs EXCEPT ![r].pc = "done"]
    /\ resp' = Response("update_victory_points", "ok", reqs[r].id, reqs[r].data)
    /\ UNCHANGED <<units, now, ticks, room, socks>>

\* update_unit_state up to the first await after the load
BeginUnitState(r, uid, data) ==
    /\ reqs[r].pc = "idle"
    /\ uid \in DOMAIN units
    /\ reqs' = [reqs EXCEPT ![r] =
                  [pc |-> "loaded", op |-> "update_unit_state", id |-> uid,
                   data |-> data, seen_players |-> players,
                   seen_units |-> units, seen_events |-> events]]
    /\ UNCHANGED <<game, players, units, events, now, ticks, room, socks, resp>>

\* the UPDATE statements of a commit: the columns the handler changed on
\* the rows it loaded
WriteBack(cur, seen, new) ==
    [u \in DOMAIN cur |->
        IF u \notin DOMAIN seen THEN cur[u]
        ELSE [cur[u] EXCEPT
                !.attached_to_unit_id =
                    IF new[u].attached_to_unit_id # seen[u].attached_to_unit_id
                    THEN new[u].attached_to_unit_id ELSE @,
                !.state = [f \in DOMAIN cur[u].state |->
                             IF new[u].state[f] # seen[u].state[f]
                             THEN new[u].state[f] ELSE cur[u].state[f]]]]

\* update_unit_state from there to the commit
CommitUnitState(r) ==
    /\ reqs[r].pc = "loaded"
    /\ reqs[r].op = "update_unit_state"
    /\ \E S \in WoundQuery(reqs[r].seen_units, events, reqs[r].id, reqs[r].data) :
         LET st == UnitStateUpdates(reqs[r].seen_units, events, reqs[r].id,
                                    reqs[r].data, S)
         IN /\ st.error = "none"
            /\ Len(st.events) <= MaxEvents
            /\ game' = [game EXCEPT !.last_activity_at = now]
            /\ units' = WriteBack(units, reqs[r].seen_units, st.units)
            /\ events' = Normalize(st.events)
    /\ reqs' = [reqs EXCEPT ![r].pc = "done"]
    /\ resp' = Response("update_unit_state", "ok", reqs[r].id, reqs[r].data)
    /\ UNCHANGED <<players, now, ticks, room, socks>>
-----------------------------------------------------------------------------
(* Room broadcasts, one send at a time.  A broadcast runs from one await   *)
(* of send_json to the next; the handlers of other connections and other   *)
(* requests run in between.  The model follows the room the manager holds  *)
(* for the game code.                                                      *)

\* GameRoom.connection_count
ConnectionCount(r) ==
    Cardinality(DOMAIN r.connections) + Cardinality(r.anonymous)

\* ws.send_json raises: the handler has returned or the client is gone
SendFails(ws) == ~socks[ws].open \/ socks[ws].gone

\* the registry entries of a room as pairs <<player id or NoId, connection>>
Entries(r) ==
    {<<p, r.connections[p]>> : p \in DOMAIN r.connections}
    \cup {<<NoId, ws>> : ws \in r.anonymous}

\* the local variables of broadcast when it starts on room r
NewFrame(r, exclude) ==
    [NoFrame EXCEPT !.phase = "identified", !.exclude = exclude,
                    !.size = Cardinality(DOMAIN r.connections),
                    !.start = Entries(r)]

Sent(f) == f.delivered \cup f.failed

\* disconnected
Disconnected(f) == {s[1] : s \in {t \in f.failed : t[1] # NoId}}

\* disconnected_anon
DisconnectedAnon(f) == {s[2] : s \in {t \in f.failed : t[1] = NoId}}

\* try: await ws.send_json(message) / except: remember the failure
Send(f, p, ws) ==
    IF SendFails(ws) THEN [f EXCEPT !.failed = @ \cup {<<p, ws>>}]
    ELSE [f EXCEPT !.delivered = @ \cup {<<p, ws>>}]

\* the two clean-up loops at the end of broadcast
CleanUp(r, f) ==
    [connections |-> [p \in DOMAIN r.connections \ Disconnected(f) |->
                         r.connections[p]],
     anonymous |-> r.anonymous \ DisconnectedAnon(f)]

\* where a resumed broadcast gets to: its next send, its return, or the
\* RuntimeError of an iterator whose collection changed size
Outcome(kind, f, r, after) ==
    [kind |-> kind, frame |-> f, before |-> r, room |-> after]

\* for ws in self.anonymous_connections, up to the next await; the set is
\* iterated in any order
ResumeAnonymous(r, f) ==
    IF Cardinality(r.anonymous) # f.size
    THEN {Outcome("raised", f, r, r)}
    ELSE LET todo == r.anonymous \ {s[2] : s \in {t \in Sent(f) : t[1] = NoId}}
         IN IF todo # {}
            THEN {Outcome("send", Send(f, NoId, ws), r, r) : ws \in todo}
            ELSE {Outcome("returned", f, r, CleanUp(r, f))}

\* for player_id, ws in self.connections.items(), up to the next await; an
\* excluded entry is passed without one
ResumeIdentified(r, f) ==
    IF Cardinality(DOMAIN r.connections) # f.size
    THEN {Outcome("raised", f, r, r)}
    ELSE LET todo == {p \in DOMAIN r.connections :
                         p # f.exclude /\ p \notin {s[1] : s \in Sent(f)}}
         IN IF todo # {}
            THEN {Outcome("send", Send(f, p, r.connections[p]), r, r) :
                      p \in todo}
            ELSE ResumeAnonymous(r, [f EXCEPT !.phase = "anonymous",
                                              !.size = Cardinality(r.anonymous)])

\* GameRoom.broadcast from where it stands; a broadcast whose room was
\* dropped iterates the dropped, empty object
Resume(rm, f) ==
    LET r == IF f.orphan THEN NoRoom ELSE rm
        out == IF f.phase = "identified" THEN ResumeIdentified(r, f)
               ELSE ResumeAnonymous(r, f)
    IN {[o EXCEPT !.room = IF f.orphan THEN rm ELSE @] : o \in out}

\* a broadcast that is over: its sends, the registry before its clean-up
\* and after
Done(o) ==
    [frame |-> [o.frame EXCEPT !.phase = o.kind], before |-> o.before,
     after |-> o.room]

\* what a step leaves behind
State(rm, ps, sk, rq, result, done) ==
    [room |-> rm, players |-> ps, socks |-> sk, reqs |-> rq,
     result |-> result, done |-> done]

Commit(op, id, st) ==
    /\ room' = st.room
    /\ players' = st.players
    /\ socks' = st.socks
    /\ reqs' = st.reqs
    /\ resp' = Response(op, st.result, id, [done |-> st.done])

Orphan(f) == IF f.phase = "none" THEN f ELSE [f EXCEPT !.orphan = TRUE]

\* game_websocket, the end of the finally block: an empty room is removed
\* from the manager
Finish(ws, rm, ps, done) ==
    LET empty == ConnectionCount(rm) = 0
    IN State(rm, ps,
             [w \in DOMAIN socks |->
                 IF w = ws THEN NoSock
                 ELSE IF empty THEN [socks[w] EXCEPT !.frame = Orphan(@)]
                 ELSE socks[w]],
             [r \in DOMAIN reqs |->
                 IF empty /\ reqs[r].pc = "broadcast"
                 THEN [reqs[r] EXCEPT !.data = Orphan(@)]
                 ELSE reqs[r]],
             "closed", done)

\* game_websocket, the broadcast of player_left inside try/except
ContinueFinally(ws, sk, rm, ps, o, done) ==
    IF o.kind = "send"
    THEN State(rm, ps,
               [socks EXCEPT ![ws] = [sk EXCEPT !.pc = "broadcast",
                                                !.after = "finally",
                                                !.frame = o.frame]],
               reqs, "closing", done)
    ELSE Finish(ws, o.room, ps, done \cup {Done(o)})

\* game_websocket, the finally block: the connection leaves the registry,
\* then the flag is cleared and the others are told, unless the UPDATE
\* raises
Terminate(ws, sk, rm, ps, done) ==
    LET r1 == RemoveConnection(rm, sk.player_id, ws)
    IN IF sk.player_id = NoId THEN {Finish(ws, r1, ps, done)}
       ELSE {[Finish(ws, r1, ps, done) EXCEPT !.result = "update_failed"]}
            \cup {ContinueFinally(ws, sk, r1,
                                  SetConnected(ps, sk.player_id, FALSE), o, done) :
                      o \in Resume(r1, NewFrame(r1, NoId))}

\* game_websocket, a broadcast awaited in the message loop: the loop goes
\* on when it returns, the handler ends when it raises
ContinueLoop(ws, sk, rm, ps, o, after) ==
    CASE o.kind = "send" ->
           {State(rm, ps,
                  [socks EXCEPT ![ws] = [sk EXCEPT !.pc = "broadcast",
                                                   !.after = after,
                                                   !.frame = o.frame]],
                  reqs, "awaiting", {})}
      [] o.kind = "returned" ->
           {State(o.room, ps,
                  [socks EXCEPT ![ws] = [sk EXCEPT !.pc = "receive",
                                                   !.after = "none",
                                                   !.frame = NoFrame]],
                  reqs, "ok", {Done(o)})}
      [] o.kind = "raised" ->
           Terminate(ws, [sk EXCEPT !.frame = NoFrame], rm, ps, {Done(o)})

\* no broadcast in progress has sent to the connection
Fresh(ws) ==
    /\ \A w \in DOMAIN socks : \A s \in Sent(socks[w].frame) : s[2] # ws
    /\ \A r \in DOMAIN reqs :
         reqs[r].pc = "broadcast" => \A s \in Sent(reqs[r].data) : s[2] # ws

\* game_websocket: accept, get_room, add_anonymous_connection
Accept(ws) ==
    /\ ~socks[ws].open
    /\ Unreferenced(room, ws)
    /\ Fresh(ws)
    /\ Commit("ws_connect", ws,
              State([room EXCEPT !.anonymous = @ \cup {ws}], players,
                    [socks EXCEPT ![ws] = [NoSock EXCEPT !.open = TRUE,
                                                         !.pc = "accepted"]],
                    reqs, "ok", {}))
    /\ UNCHANGED <<game, units, events, now, ticks>>

\* game_websocket: the initial state message, or the error message and
\* the return when the game is not found
SendSnapshot(ws) ==
    /\ socks[ws].pc = "accepted"
    /\ IF ~game.exists \/ SendFails(ws)
       THEN \E st \in Terminate(ws, socks[ws], room, players, {}) :
                Commit("ws_state", ws, st)
       ELSE Commit("ws_state", ws,
                   State(room, players,
                         [socks EXCEPT ![ws].pc = "receive",
                                       ![ws].snapshot = TRUE],
                         reqs, "ok", {}))
    /\ UNCHANGED <<game, units, events, now, ticks>>

\* variant: a message is taken as soon as the connection is accepted
Accepted(ws) == socks[ws].pc \in {"accepted", "receive"}

\* the handler is at receive_json in its message loop
Receiving(ws) == socks[ws].pc = "receive"

\* game_websocket, a "join" message naming player p
ReceiveJoin(ws, p) ==
    /\ Receiving(ws)
    /\ LET sk == [socks[ws] EXCEPT !.player_id = p]
           r1 == AddConnection(room, p, ws)
       IN IF p \in 1..Len(players)
          THEN \E o \in Resume(r1, NewFrame(r1, p)) :
               \E st \in ContinueLoop(ws, sk, r1, SetConnected(players, p, TRUE),
                                      o, "join") :
                   Commit("ws_join", ws, st)
          ELSE IF SendFails(ws)
          THEN \E st \in Terminate(ws, sk, r1, players, {}) :
                   Commit("ws_join", ws, st)
          ELSE Commit("ws_join", ws,
                      State(r1, players, [socks EXCEPT ![ws] = sk], reqs,
                            "error", {}))
    /\ UNCHANGED <<game, units, events, now, ticks>>

\* game_websocket, a "state_update" message
ReceiveStateUpdate(ws) ==
    /\ Receiving(ws)
    /\ \E o \in Resume(room, NewFrame(room, socks[ws].player_id)) :
       \E st \in ContinueLoop(ws, socks[ws], room, players, o, "state_update") :
           Commit("ws_state_update", ws, st)
    /\ UNCHANGED <<game, units, events, now, ticks>>

\* game_websocket, a "ping" or "request_state" message
ReceivePing(ws) ==
    /\ Receiving(ws)
    /\ IF SendFails(ws)
       THEN \E st \in Terminate(ws, socks[ws], room, players, {}) :
                Commit("ws_ping", ws, st)
       ELSE Commit("ws_ping", ws, State(room, players, socks, reqs, "ok", {}))
    /\ UNCHANGED <<game, units, events, now, ticks>>

\* the client goes away: from now on sends to the connection raise
ClientGone(ws) ==
    /\ socks[ws].open
    /\ ~socks[ws].gone
    /\ Commit("client_gone", ws,
              State(room, players, [socks EXCEPT ![ws].gone = TRUE], reqs,
                    "ok", {}))
    /\ UNCHANGED <<game, units, events, now, ticks>>

\* game_websocket: receive_json raises WebSocketDisconnect
ReceiveDisconnect(ws) ==
    /\ Receiving(ws)
    /\ socks[ws].gone
    /\ \E st \in Terminate(ws, socks[ws], room, players, {}) :
           Commit("ws_disconnect", ws, st)
    /\ UNCHANGED <<game, units, events, now, ticks>>

\* game_websocket: a message that is not a JSON object, data.get raises
ReceiveMalformed(ws) ==
    /\ Receiving(ws)
    /\ \E st \in Terminate(ws, socks[ws], room, players, {}) :
           Commit("ws_error", ws, st)
    /\ UNCHANGED <<game, units, events, now, ticks>>

\* the broadcast a handler awaits goes on to its next send or to its end
ResumeHandler(ws) ==
    /\ socks[ws].pc = "broadcast"
    /\ \E o \in Resume(room, socks[ws].frame) :
         IF socks[ws].after = "finally"
         THEN Commit("ws_close", ws,
                     ContinueFinally(ws, socks[ws], room, players, o, {}))
         ELSE \E st \in ContinueLoop(ws, socks[ws], room, players, o,
                                     socks[ws].after) :
                  Commit("ws_" \o socks[ws].after, ws, st)
    /\ UNCHANGED <<game, units, events, now, ticks>>

\* a request's broadcast, once it has started: the response follows its
\* return, an exception makes the request fail
ContinueRequest(r, op, id, o) ==
    CASE o.kind = "send" ->
           State(room, players, socks,
                 [reqs EXCEPT ![r] =
                    [Idle EXCEPT !.pc = "broadcast", !.op = op,
                                 !.id = id, !.data = o.frame,
                                 !.seen_units =
                                     IF reqs[r].pc = "broadcast"
                                     THEN reqs[r].seen_units ELSE units,
                                 !.seen_events =
                                     IF reqs[r].pc = "broadcast"
                                     THEN reqs[r].seen_events ELSE events]],
                 "awaiting", {})
      [] o.kind = "returned" ->
           State(o.room, players, socks, [reqs EXCEPT ![r] = Idle], "ok",
                 {Done(o)})
      [] o.kind = "raised" ->
           State(room, players, socks, [reqs EXCEPT ![r] = Idle],
                 "InternalServerError", {Done(o)})

\* broadcast_if_not_solo and broadcast_to_game after the commit
BroadcastToGame(r, op, id) ==
    IF game.is_solo \/ ConnectionCount(room) = 0
    THEN Commit(op, id, State(room, players, socks, reqs, "ok", {}))
    ELSE \E o \in Resume(room, NewFrame(room, NoId)) :
             Commit(op, id, ContinueRequest(r, op, id, o))

\* update_unit_state through its commit and into its broadcast
UpdateUnitStateBroadcast(r, uid, data) ==
    /\ reqs[r].pc = "idle"
    /\ game.exists
    /\ uid \in DOMAIN units
    /\ \E S \in WoundQuery(units, events, uid, data) :
         LET st == UnitStateUpdates(units, events, uid, data, S)
         IN /\ st.error = "none"
            /\ Len(st.events) <= MaxEvents
            /\ game' = [game EXCEPT !.last_activity_at = now]
            /\ units' = st.units
            /\ events' = Normalize(st.events)
    /\ BroadcastToGame(r, "update_unit_state", uid)
    /\ UNCHANGED <<now, ticks>>

\* update_unit_state, the rest of its broadcast and the response
ResumeRequest(r) ==
    /\ reqs[r].pc = "broadcast"
    /\ \E o \in Resume(room, reqs[r].data) :
           Commit(reqs[r].op, reqs[r].id,
                  ContinueRequest(r, reqs[r].op, reqs[r].id, o))
    /\ UNCHANGED <<game, units, events, now, ticks>>
-----------------------------------------------------------------------------
(* Specifications *)

Slots == 1..2

NoRequests == [r \in Slots |-> Idle]

\* before the session is created
Init ==
    /\ game = NoGame
    /\ players = <<>>
    /\ units = <<>>
    /\ events = <<>>
    /\ now = 0
    /\ ticks = 0
    /\ room = NoRoom
    /\ socks = [ws \in SockIds |-> NoSock]
    /\ resp = Response("none", "ok", NoId, NoData)
    /\ reqs = NoRequests

\* CreateUnitRequest: a plain unit
PlainUnit(p) ==
    [player_id |-> p, cost |-> 1, is_caster |-> FALSE, caster_level |-> 0,
     has_ambush |-> FALSE, rules |-> <<>>, attached_to_unit_id |-> NoId]

\* the log stays within the bound of the specification at hand
Within(cap) == Len(events') <= cap

\* UpdateGameStateRequest: a round, a status, or a new round that ends the
\* game
StateRequests ==
    {[current_round |-> {n}, status |-> {}] : n \in -1..MaxRound}
    \cup {[current_round |-> {}, status |-> {x}] : x \in GameStatus}
    \cup {[current_round |-> {MaxRound}, status |-> {"completed"}]}

\* Rounds and status: create, add units, start, bulk updates and the
\* round stepper
CreateGameAny == \E is_solo \in BOOLEAN : CreateGame(is_solo)
CreatePlainUnit ==
    \E p \in PlayerIds :
        CreateUnitManually(PlainUnit(p)) /\ Within(MaxRoundEvents)
StartRound == StartGame /\ Within(MaxRoundEvents)
UpdateGameStateAny ==
    \E data \in StateRequests :
        UpdateGameState(data) /\ Within(MaxRoundEvents)
UpdateRoundAny ==
    \E delta \in -MaxDelta..MaxDelta :
        UpdateRound(delta) /\ Within(MaxRoundEvents)

Next ==
    \/ CreateGameAny
    \/ CreatePlainUnit
    \/ StartRound
    \/ UpdateGameStateAny
    \/ UpdateRoundAny

Spec == Init /\ [][Next]_vars

\* Joining, connections and expiration: create, join, one realtime
\* connection, the clock, a request that only records activity, and reads
ExpiryTicks == {1800, 7200, 2678400}
ExpirySocks == {1}

JoinExpiry == JoinGame /\ Within(MaxExpiryEvents)
TickExpiry == \E d \in ExpiryTicks : Tick(d)
WsConnectAny == \E ws \in ExpirySocks : WsConnect(ws)
WsJoinAny == \E ws \in ExpirySocks, p \in PlayerIds : WsJoin(ws, p)
WsCloseAny == \E ws \in ExpirySocks : WsClose(ws)
TouchRound == UpdateRound(0)

NextExpiry ==
    \/ CreateGameAny
    \/ JoinExpiry
    \/ TouchRound
    \/ GetGame
    \/ TickExpiry
    \/ WsConnectAny
    \/ WsJoinAny
    \/ WsCloseAny

SpecExpiry == Init /\ [][NextExpiry]_vars

\* Victory points: create, join and deltas
UpdateVictoryPointsAny ==
    \E p \in PlayerIds, delta \in -MaxDelta..MaxDelta :
        UpdateVictoryPoints(p, delta) /\ Within(MaxVpEvents)

NextVP ==
    \/ CreateGame(FALSE)
    \/ JoinGame
    \/ UpdateVictoryPointsAny

SpecVP == Init /\ [][NextVP]_vars

\* Attached units and destruction: create, import a unit with its heroes,
\* add a hero by hand, shake, destroy
UnitDescriptor(sel, join, rules) ==
    [cost |-> 1, rules |-> rules, selectionId |-> sel, joinToUnit |-> join]

\* a unit (selection 1) and the heroes joined to it
HeroArmies ==
    {<<UnitDescriptor(1, NoId, <<>>), UnitDescriptor(2, 1, <<>>)>>,
     <<UnitDescriptor(1, NoId, <<>>), UnitDescriptor(2, 1, <<>>),
       UnitDescriptor(3, 1, <<>>)>>}

AttachedUnit(p, parent) == [PlainUnit(p) EXCEPT !.attached_to_unit_id = parent]

DestroyRequests ==
    {[NoUpdate EXCEPT !.is_shaken = {TRUE}],
     [NoUpdate EXCEPT !.deployment_status = {"destroyed"}]}

ImportHeroArmy ==
    \E army \in HeroArmies : ImportArmy(1, army) /\ Within(MaxDestroyEvents)
CreateAttachedUnit ==
    CreateUnitManually(AttachedUnit(1, 1)) /\ Within(MaxDestroyEvents)
UpdateDestroy ==
    \E u \in UnitIds, data \in DestroyRequests :
        UpdateUnitState(u, data) /\ Within(MaxDestroyEvents)

NextDestroy ==
    \/ CreateGame(FALSE)
    \/ ImportHeroArmy
    \/ CreateAttachedUnit
    \/ UpdateDestroy

SpecDestroy == Init /\ [][NextDestroy]_vars

\* Activation of attached units: create, import a unit with its heroes,
\* activate, reset, shake, fatigue
ActivationRequests ==
    {[NoUpdate EXCEPT !.activated_this_round = {b}] : b \in BOOLEAN}
    \cup {[NoUpdate EXCEPT !.is_shaken = {TRUE}],
          [NoUpdate EXCEPT !.is_fatigued = {TRUE}],
          [NoUpdate EXCEPT !.wounds_taken = {1}, !.activated_this_round = {TRUE}]}

ImportActivation ==
    \E army \in HeroArmies : ImportArmy(1, army) /\ Within(MaxActivateEvents)
UpdateActivation ==
    \E u \in UnitIds, data \in ActivationRequests :
        UpdateUnitState(u, data) /\ Within(MaxActivateEvents)

NextActivate ==
    \/ CreateGame(FALSE)
    \/ ImportActivation
    \/ UpdateActivation

SpecActivate == Init /\ [][NextActivate]_vars

\* Wounds and the grace window: create, add units, set wounds, let time
\* pass
WoundTicks == {GraceSeconds}

CreateWoundUnit ==
    /\ Cardinality(DOMAIN units) < MaxWoundUnits
    /\ CreateUnitManually(PlainUnit(1))
    /\ Within(MaxWoundEvents)
UpdateWounds ==
    \E u \in 1..MaxWoundUnits, w \in 0..MaxWounds :
        /\ UpdateUnitState(u, [NoUpdate EXCEPT !.wounds_taken = {w}])
        /\ Within(MaxWoundEvents)
TickWounds == \E d \in WoundTicks : Tick(d)

NextWounds ==
    \/ CreateGame(FALSE)
    \/ CreateWoundUnit
    \/ UpdateWounds
    \/ TickWounds

SpecWounds == Init /\ [][NextWounds]_vars

\* Spell tokens: create, add casters by hand and by import, set tokens
CasterRatings == {0, 3, MaxSpellTokens + 1}
TokenValues == {-1, 0, MaxSpellTokens, MaxSpellTokens + 1}

CasterRule(r) == <<[name |-> "caster", rating |-> r]>>

CasterRequests ==
    {[PlainUnit(1) EXCEPT !.is_caster = TRUE, !.caster_level = n] :
        n \in {0, MaxSpellTokens}}
    \cup {[PlainUnit(1) EXCEPT !.rules = CasterRule(r)] : r \in CasterRatings}

CreateCaster ==
    \E data \in CasterRequests :
        CreateUnitManually(data) /\ Within(MaxTokenEvents)
ImportCaster ==
    \E r \in CasterRatings :
        /\ ImportArmy(1, <<UnitDescriptor(1, NoId, CasterRule(r))>>)
        /\ Within(MaxTokenEvents)
UpdateTokens ==
    \E u \in UnitIds, n \in TokenValues :
        /\ UpdateUnitState(u, [NoUpdate EXCEPT !.spell_tokens = {n}])
        /\ Within(MaxTokenEvents)

NextTokens ==
    \/ CreateGame(FALSE)
    \/ CreateCaster
    \/ ImportCaster
    \/ UpdateTokens

SpecTokens == Init /\ [][NextTokens]_vars

\* Two requests in flight: create, add a unit, and two victory-point or
\* wound requests that load and commit in any order
CreateSharedUnit == CreateUnitManually(PlainUnit(1)) /\ Within(MaxSharedEvents)
BeginVictoryPointsAny ==
    \E r \in Slots, delta \in (-MaxDelta..MaxDelta) \ {0} :
        BeginVictoryPoints(r, 1, delta)
CommitVictoryPointsAny ==
    \E r \in Slots : CommitVictoryPoints(r) /\ Within(MaxSharedEvents)
BeginWoundsAny ==
    \E r \in Slots, w \in 0..MaxWounds :
        BeginUnitState(r, 1, [NoUpdate EXCEPT !.wounds_taken = {w}])
CommitWoundsAny ==
    \E r \in Slots : CommitUnitState(r) /\ Within(MaxSharedEvents)

NextShared ==
    \/ CreateGame(FALSE)
    \/ CreateSharedUnit
    \/ BeginVictoryPointsAny
    \/ CommitVictoryPointsAny
    \/ BeginWoundsAny
    \/ CommitWoundsAny

SpecShared == Init /\ [][NextShared]_vars

\* The room: connections that come, identify, talk and go
AcceptAny == \E ws \in SockIds : Accept(ws)
SendSnapshotAny == \E ws \in SockIds : SendSnapshot(ws)
ReceiveJoinAny == \E ws \in SockIds, p \in PlayerIds : ReceiveJoin(ws, p)
ReceiveStateUpdateAny == \E ws \in SockIds : ReceiveStateUpdate(ws)
ReceivePingAny == \E ws \in SockIds : ReceivePing(ws)
ClientGoneAny == \E ws \in SockIds : ClientGone(ws)
ReceiveDisconnectAny == \E ws \in SockIds : ReceiveDisconnect(ws)
ReceiveMalformedAny == \E ws \in SockIds : ReceiveMalformed(ws)
ResumeHandlerAny == \E ws \in SockIds : ResumeHandler(ws)

NextRoom ==
    \/ CreateGame(FALSE)
    \/ AcceptAny
    \/ SendSnapshotAny
    \/ ReceiveJoinAny
    \/ ReceiveStateUpdateAny
    \/ ReceivePingAny
    \/ ClientGoneAny
    \/ ReceiveDisconnectAny
    \/ ReceiveMalformedAny
    \/ ResumeHandlerAny

SpecRoom == Init /\ [][NextRoom]_vars

\* Requests that broadcast: one unit entered before the client connects,
\* unit updates, and one connection that comes, identifies and goes
NotifySlots == {1}
NotifySocks == {1}
NotifyUpdates == {[NoUpdate EXCEPT !.is_fatigued = {b}] : b \in BOOLEAN}
CreateNotifyUnit ==
    /\ ConnectionCount(room) = 0
    /\ Cardinality(DOMAIN units) < MaxNotifyUnits
    /\ CreateUnitManually(PlainUnit(1))
    /\ Within(MaxNotifyEvents)
UpdateNotifyUnit ==
    \E r \in NotifySlots, u \in DOMAIN units, data \in NotifyUpdates :
        UpdateUnitStateBroadcast(r, u, data) /\ Within(MaxNotifyEvents)
ResumeRequestAny == \E r \in NotifySlots : ResumeRequest(r)
AcceptOne == \E ws \in NotifySocks : Accept(ws)
SendSnapshotOne == \E ws \in NotifySocks : SendSnapshot(ws)
ReceiveJoinOne == \E ws \in NotifySocks, p \in PlayerIds : ReceiveJoin(ws, p)
ClientGoneOne == \E ws \in NotifySocks : ClientGone(ws)
ReceiveDisconnectOne == \E ws \in NotifySocks : ReceiveDisconnect(ws)
ResumeHandlerOne == \E ws \in NotifySocks : ResumeHandler(ws)

NextNotify ==
    \/ CreateGame(FALSE)
    \/ CreateNotifyUnit
    \/ UpdateNotifyUnit
    \/ ResumeRequestAny
    \/ AcceptOne
    \/ SendSnapshotOne
    \/ ReceiveJoinOne
    \/ ClientGoneOne
    \/ ReceiveDisconnectOne
    \/ ResumeHandlerOne

SpecNotify == Init /\ [][NextNotify]_vars

\* Starting: create, join, enter units of either cost for either player,
\* step the round, start
StartCosts == {1, 2}
JoinStart == JoinGame /\ Within(MaxStartEvents)
CreateStartUnit ==
    \E p \in PlayerIds, c \in StartCosts :
        /\ CreateUnitManually([PlainUnit(p) EXCEPT !.cost = c])
        /\ Within(MaxStartEvents)
StepRound == UpdateRound(1) /\ game.current_round < MaxRound /\ Within(MaxStartEvents)
StartAny == StartGame /\ Within(MaxStartEvents)

NextStart ==
    \/ CreateGameAny
    \/ JoinStart
    \/ CreateStartUnit
    \/ StepRound
    \/ StartAny

SpecStart == Init /\ [][NextStart]_vars

\* Units with heroes: create, import a unit with its heroes, activate,
\* reset, shake and rally any of them
HeroRequests ==
    {[NoUpdate EXCEPT !.activated_this_round = {b}] : b \in BOOLEAN}
    \cup {[NoUpdate EXCEPT !.is_shaken = {b}] : b \in BOOLEAN}

ImportHeroes ==
    \E army \in HeroArmies : ImportArmy(1, army) /\ Within(MaxHeroEvents)
UpdateHeroes ==
    \E u \in UnitIds, data \in HeroRequests :
        UpdateUnitState(u, data) /\ Within(MaxHeroEvents)

NextHeroes ==
    \/ CreateGame(FALSE)
    \/ ImportHeroes
    \/ UpdateHeroes

SpecHeroes == Init /\ [][NextHeroes]_vars

\* Detaching: create, import a unit with its heroes, shake, rally and
\* detach any of them
ImportDetach ==
    \E army \in HeroArmies : ImportArmy(1, army) /\ Within(MaxDetachEvents)
ShakeDetach ==
    \E u \in UnitIds, b \in BOOLEAN :
        /\ UpdateUnitState(u, [NoUpdate EXCEPT !.is_shaken = {b}])
        /\ Within(MaxDetachEvents)
DetachAny == \E u \in UnitIds : DetachUnit(u) /\ Within(MaxDetachEvents)

NextDetach ==
    \/ CreateGame(FALSE)
    \/ ImportDetach
    \/ ShakeDetach
    \/ DetachAny

SpecDetach == Init /\ [][NextDetach]_vars

\* Clearing armies: create, join, add units of either player, embark a
\* unit in another, start, clear the units of a player
JoinClear == JoinGame /\ Within(MaxClearEvents)
CreateClearUnit ==
    \E p \in PlayerIds, c \in StartCosts :
        /\ CreateUnitManually([PlainUnit(p) EXCEPT !.cost = c])
        /\ Within(MaxClearEvents)
EmbarkClear ==
    \E u \in DOMAIN units :
      \E t \in DOMAIN units \ {u} :
        /\ UpdateUnitState(u, [NoUpdate EXCEPT !.transport_id = {t}])
        /\ Within(MaxClearEvents)
StartClear == StartGame /\ Within(MaxClearEvents)
ClearAny == \E p \in PlayerIds : ClearAllUnits(p) /\ Within(MaxClearEvents)

NextClear ==
    \/ CreateGame(FALSE)
    \/ JoinClear
    \/ CreateClearUnit
    \/ EmbarkClear
    \/ StartClear
    \/ ClearAny

SpecClear == Init /\ [][NextClear]_vars

\* Reads: create, join, add a unit, record activity, one realtime
\* connection, fetches and the time between them
JoinRead == JoinGame /\ Within(MaxReadEvents)
CreateReadUnit ==
    /\ DOMAIN units = {}
    /\ CreateUnitManually(PlainUnit(1))
    /\ Within(MaxReadEvents)
WaitRead == \E d \in ExpiryTicks : Wait(d)

NextRead ==
    \/ CreateGameAny
    \/ JoinRead
    \/ CreateReadUnit
    \/ TouchRound
    \/ GetGame
    \/ WaitRead
    \/ WsConnectAny
    \/ WsJoinAny
    \/ WsCloseAny

SpecRead == Init /\ [][NextRead]_vars

\* Join codes: sessions are created with any generated code, this one and
\* others, and players join this one
CreateWithAnyCode ==
    \E is_solo \in BOOLEAN, c \in JoinCodes : CreateGameWithCode(is_solo, c)
CreateOtherAny == \E c \in JoinCodes : CreateOtherGame(c)

NextCodes ==
    \/ CreateWithAnyCode
    \/ CreateOtherAny
    \/ JoinGame

SpecCodes == Init /\ [][NextCodes]_vars

\* Bulk updates and the per-round flags: create, join, add units, set the
\* flags of units, bulk round and status updates
BulkFlags ==
    {[NoUpdate EXCEPT !.activated_this_round = {TRUE}],
     [NoUpdate EXCEPT !.is_fatigued = {TRUE}],
     [NoUpdate EXCEPT !.is_shaken = {TRUE}]}
BulkRequests ==
    {[current_round |-> {n}, status |-> {}] : n \in MinRound..2}
    \cup {[current_round |-> {}, status |-> {"in_progress"}],
          [current_round |-> {2}, status |-> {"completed"}]}

JoinBulk == JoinGame /\ Within(MaxBulkEvents)
CreateBulkUnit ==
    /\ Cardinality(DOMAIN units) < 2
    /\ CreateUnitManually(PlainUnit(1))
    /\ Within(MaxBulkEvents)
FlagBulk ==
    \E u \in UnitIds, data \in BulkFlags :
        UpdateUnitState(u, data) /\ Within(MaxBulkEvents)
UpdateGameStateBulk ==
    \E data \in BulkRequests :
        UpdateGameState(data) /\ Within(MaxBulkEvents)

NextBulk ==
    \/ CreateGame(FALSE)
    \/ JoinBulk
    \/ CreateBulkUnit
    \/ FlagBulk
    \/ UpdateGameStateBulk

SpecBulk == Init /\ [][NextBulk]_vars

\* Activity tracking: create, join, add a unit, bulk update, the round
\* stepper, and the clock
ActivityTicks == {60}

JoinActivity == JoinGame /\ Within(MaxActivityEvents)
CreateActivityUnit ==
    /\ DOMAIN units = {}
    /\ CreateUnitManually(PlainUnit(1))
    /\ Within(MaxActivityEvents)
BulkActivity ==
    /\ UpdateGameState([current_round |-> {2}, status |-> {}])
    /\ Within(MaxActivityEvents)
StepActivity == UpdateRound(1) /\ Within(MaxActivityEvents)
TickActivity == \E d \in ActivityTicks : Tick(d)

NextActivity ==
    \/ CreateGame(FALSE)
    \/ JoinActivity
    \/ CreateActivityUnit
    \/ BulkActivity
    \/ StepActivity
    \/ TickActivity

SpecActivity == Init /\ [][NextActivity]_vars

\* Attachments: create, join, add units by hand with any attach-to
\* reference, import lists with any joinToUnit references
AttachArmies ==
    {<<UnitDescriptor(1, j1, <<>>), UnitDescriptor(2, j2, <<>>)>> :
        j1 \in 0..2, j2 \in 0..2}

JoinAttach == JoinGame /\ Within(MaxAttachEvents)
CreateAttachAny ==
    \E p \in PlayerIds, parent \in {NoId} \cup UnitIds :
        CreateUnitManually(AttachedUnit(p, parent)) /\ Within(MaxAttachEvents)
ImportAttach ==
    \E p \in PlayerIds, army \in AttachArmies :
        ImportArmy(p, army) /\ Within(MaxAttachEvents)

NextAttach ==
    \/ CreateGame(FALSE)
    \/ JoinAttach
    \/ CreateAttachAny
    \/ ImportAttach

SpecAttach == Init /\ [][NextAttach]_vars

\* Transports: create, add two units, embark one in the other, and
\* requests that carry no transport field
TransportRequests ==
    {[NoUpdate EXCEPT !.wounds_taken = {w}] : w \in 0..1}
    \cup
    {[NoUpdate EXCEPT !.is_shaken = {TRUE}],
     [NoUpdate EXCEPT !.deployment_status = {"in_reserve"}],
     [NoUpdate EXCEPT !.deployment_status = {"destroyed"}]}

CreateTransportUnit ==
    /\ Cardinality(DOMAIN units) < 2
    /\ CreateUnitManually(PlainUnit(1))
    /\ Within(MaxTransportEvents)
EmbarkAny ==
    \E u \in DOMAIN units :
      \E t \in DOMAIN units \ {u} :
        /\ UpdateUnitState(u, [NoUpdate EXCEPT !.transport_id = {t}])
        /\ Within(MaxTransportEvents)
UpdateTransport ==
    \E u \in UnitIds, data \in TransportRequests :
        UpdateUnitState(u, data) /\ Within(MaxTransportEvents)

NextTransport ==
    \/ CreateGame(FALSE)
    \/ CreateTransportUnit
    \/ EmbarkAny
    \/ UpdateTransport

SpecTransport == Init /\ [][NextTransport]_vars

\* Identified connections: create, join, two realtime connections that
\* identify as any player and close
JoinSockets == JoinGame
WsConnectTwo == \E ws \in SockIds : WsConnect(ws)
WsJoinTwo == \E ws \in SockIds, p \in PlayerIds : WsJoin(ws, p)
WsCloseTwo == \E ws \in SockIds : WsClose(ws)

NextSockets ==
    \/ CreateGame(FALSE)
    \/ JoinSockets
    \/ WsConnectTwo
    \/ WsJoinTwo
    \/ WsCloseTwo

SpecSockets == Init /\ [][NextSockets]_vars

\* Joins in flight: create, two join requests that load and commit in any
\* order, units added by hand, start
BeginJoinAny == \E r \in Slots : BeginJoinGame(r)
CommitJoinAny == \E r \in Slots : CommitJoinGame(r) /\ Within(MaxJoinEvents)
CreateJoinUnit ==
    /\ \E p \in 1..Len(players) :
         /\ PlayerUnits(units, p) = {}
         /\ CreateUnitManually(PlainUnit(p))
    /\ Within(MaxJoinEvents)
StartJoin == StartGame /\ Within(MaxJoinEvents)

NextJoins ==
    \/ CreateGameAny
    \/ BeginJoinAny
    \/ CommitJoinAny
    \/ CreateJoinUnit
    \/ StartJoin

SpecJoins == Init /\ [][NextJoins]_vars
-----------------------------------------------------------------------------
(* Properties *)

\* the rows a step appended, when it deleted none
Appended == SubSeq(events', Len(events) + 1, Len(events'))

\* the rows of the most recent transaction
LastTransaction ==
    {i \in 1..Len(events) : events[i].txn = events[Len(events)].txn}

CountOf(log, type, uid) ==
    Cardinality({i \in 1..Len(log) : /\ log[i].event_type = type
                                     /\ log[i].target_unit_id = uid})

\* C3: destroying a unit that has N attached units appends exactly N
\* unit_detached events, one per attached unit, and clears their
\* attachment; if the unit was shaken, every attached unit ends shaken,
\* with exactly one status_shaken event if it was not shaken before and
\* none if it was.
DestroyStep(u) ==
    /\ resp'.op = "update_unit_state"
    /\ resp'.result = "ok"
    /\ resp'.id = u
    /\ u \in DOMAIN units
    /\ units[u].state.deployment_status # "destroyed"
    /\ units'[u].state.deployment_status = "destroyed"

C3_DestroyDetaches ==
    [][\A u \in UnitIds :
         DestroyStep(u) =>
           LET H == AttachedHeroes(units, u)
           IN /\ Cardinality({i \in 1..Len(Appended) :
                     Appended[i].event_type = "unit_detached"})
                   = Cardinality(H)
              /\ \A h \in H :
                   /\ CountOf(Appended, "unit_detached", h) = 1
                   /\ units'[h].attached_to_unit_id = NoId
                   /\ units[u].state.is_shaken =>
                        /\ units'[h].state.is_shaken
                        /\ CountOf(Appended, "status_shaken", h)
                             = IF units[h].state.is_shaken THEN 0 ELSE 1]_vars

\* a shaken unit destroyed with two attached units, one of them shaken
\* before and one not
C3_Witness ==
    /\ resp.op = "update_unit_state"
    /\ resp.result = "ok"
    /\ resp.data.deployment_status = {"destroyed"}
    /\ units[resp.id].state.is_shaken
    /\ events[Len(events)].event_type = "unit_detached"
    /\ Cardinality({i \in LastTransaction :
           events[i].event_type = "unit_detached"}) = 2
    /\ Cardinality({i \in LastTransaction :
           events[i].event_type = "status_shaken"}) = 1
    /\ \E i \in LastTransaction :
           /\ events[i].event_type = "unit_destroyed"
           /\ events[i].target_unit_id = resp.id

\* the newest unit_wounded rows of a unit: those of the last transaction
\* that wounded it
LastWounds(u) ==
    LET W == Matching(events, LAMBDA e : IsWoundEvent(e, u))
    IN {i \in W : \A j \in W : events[j].txn <= events[i].txn}

\* the unit was last raised from orig by d wounds, at most 30 seconds ago
RaisedBy(u, orig, d) ==
    /\ u \in DOMAIN units
    /\ d > 0
    /\ units[u].state.wounds_taken = orig + d
    /\ {events[i].before : i \in LastWounds(u)} = orig..(orig + d - 1)
    /\ Cardinality(LastWounds(u)) = d
    /\ \A i \in LastWounds(u) : now - events[i].created_at <= 30

\* C4: raising the wounds of a unit by d and lowering them by d within 30
\* seconds returns wounds_taken to its value before, leaves as many
\* unit_wounded events for the unit as before the raise, and appends no
\* unit_healed event.
C4_WoundRoundTrip ==
    [][\A u \in UnitIds, orig \in 0..MaxWounds, d \in 1..MaxWounds + 1 :
         (/\ RaisedBy(u, orig, d)
          /\ resp'.op = "update_unit_state"
          /\ resp'.id = u
          /\ resp'.data.wounds_taken = {orig})
         => /\ resp'.result = "ok"
            /\ units'[u].state.wounds_taken = orig
            /\ CountOf(events', "unit_wounded", u)
                 = CountOf(events, "unit_wounded", u) - d
            /\ CountOf(events', "unit_healed", u)
                 = CountOf(events, "unit_healed", u)]_vars

\* a unit raised by two wounds 30 seconds ago, about to be lowered
C4_Witness ==
    \E u \in UnitIds :
        /\ RaisedBy(u, 0, 2)
        /\ \A i \in LastWounds(u) : now - events[i].created_at = 30

\* the before values of the vp_changed rows of a player, oldest first
VpLog(log, p) ==
    LET M == Matching(log, LAMBDA e : IsVpEvent(e, p))
    IN [j \in 1..Cardinality(M) |-> log[NthOf(M, j)].before]

VpStep(p) ==
    /\ resp'.op = "update_victory_points"
    /\ resp'.result = "ok"
    /\ resp'.id = p

\* both requests are done, and they loaded the same rows of the same target
SameSnapshot ==
    /\ \A r \in Slots : reqs[r].pc = "done"
    /\ reqs[1].op = reqs[2].op
    /\ reqs[1].id = reqs[2].id
    /\ reqs[1].seen_players = reqs[2].seen_players
    /\ reqs[1].seen_units = reqs[2].seen_units
    /\ reqs[1].seen_events = reqs[2].seen_events

CountVp(log, p) == Cardinality(Matching(log, LAMBDA e : IsVpEvent(e, p)))

\* one victory-point delta applied on its own to the points and the number
\* of vp_changed rows of a player
SerialVp(s, d) ==
    [vp |-> IF s.vp + d < 0 THEN 0 ELSE s.vp + d,
     n |-> IF s.n + d < 0 THEN 0 ELSE s.n + d]

\* one wound update applied on its own, within the grace window, to the
\* wounds and the numbers of unit_wounded and unit_healed rows of a unit
SerialWounds(s, w) ==
    [w |-> w,
     n |-> IF w >= s.w THEN s.n + (w - s.w)
           ELSE IF s.n < s.w - w THEN 0 ELSE s.n - (s.w - w),
     h |-> s.h]

\* C1: two concurrent victory-point deltas on one player, or two concurrent
\* wound updates on one unit, leave the stored value and the event log as
\* the two requests would one after the other, in one of the two orders.
C1_NoLostUpdate ==
    SameSnapshot =>
      LET id == reqs[1].id
          seen == reqs[1].seen_events
      IN IF reqs[1].op = "update_victory_points"
         THEN LET s0 == [vp |-> reqs[1].seen_players[id].victory_points,
                         n |-> CountVp(seen, id)]
                  d1 == reqs[1].data.delta
                  d2 == reqs[2].data.delta
              IN [vp |-> players[id].victory_points, n |-> CountVp(events, id)]
                   \in {SerialVp(SerialVp(s0, d1), d2),
                        SerialVp(SerialVp(s0, d2), d1)}
         ELSE LET s0 == [w |-> reqs[1].seen_units[id].state.wounds_taken,
                         n |-> CountOf(seen, "unit_wounded", id),
                         h |-> CountOf(seen, "unit_healed", id)]
                  w1 == Val(reqs[1].data.wounds_taken)
                  w2 == Val(reqs[2].data.wounds_taken)
              IN [w |-> units[id].state.wounds_taken,
                  n |-> CountOf(events, "unit_wounded", id),
                  h |-> CountOf(events, "unit_healed", id)]
                   \in {SerialWounds(SerialWounds(s0, w1), w2),
                        SerialWounds(SerialWounds(s0, w2), w1)}

\* C2: a request with activated_this_round = true for a unit that is
\* attached to another unit fails with a validation error, whatever the
\* unit's state.
C2_AttachedCannotActivate ==
    [][(/\ resp'.op = "update_unit_state"
        /\ resp'.id \in DOMAIN units
        /\ resp'.data.activated_this_round = {TRUE}
        /\ units[resp'.id].attached_to_unit_id # NoId)
       => resp'.result = "ValidationException"]_vars

\* C5: a negative victory-point delta -k deletes the k most recently
\* appended vp_changed events of the player and leaves the oldest ones.
C5_DeletesMostRecent ==
    [][\A p \in PlayerIds :
         (VpStep(p) /\ resp'.data.delta < 0) =>
            LET old == VpLog(events, p)
            IN VpLog(events', p)
                 = SubSeq(old, 1, Max(0, Len(old) + resp'.data.delta))]_vars

\* C6: the session's current_round is at least 1.
C6_RoundAtLeastOne == game.exists => game.current_round >= 1

\* C7: every player's victory_points is at least 0.
C7_VictoryPointsNonNegative ==
    \A p \in 1..Len(players) : players[p].victory_points >= 0

\* a negative delta larger than the player's victory points was applied
C7_Witness ==
    /\ resp.op = "update_victory_points"
    /\ resp.result = "ok"
    /\ resp.data.delta = -MaxDelta
    /\ players[resp.id].victory_points = 0
    /\ \E q \in 1..Len(players) : players[q].victory_points > 0

JoinStep ==
    /\ resp'.op = "join_game"
    /\ ~game.is_solo
    /\ game.status = "lobby"

\* C8: the spell_tokens of every unit state are between 0 and 6.
C8_SpellTokensInRange ==
    \A u \in DOMAIN units :
        /\ units[u].state.spell_tokens >= 0
        /\ units[u].state.spell_tokens <= 6

\* C9: in a multiplayer session the host is the first of the two players:
\* the first join succeeds and every join after it fails with a validation
\* error.
C9_JoinCapacity ==
    [][JoinStep =>
         IF Len(players) = 1
         THEN resp'.result = "ok" /\ Len(players') = 2
         ELSE resp'.result = "ValidationException" /\ players' = players]_vars

\* the second join was refused
C9_Witness ==
    /\ resp.op = "join_game"
    /\ resp.result = "ValidationException"
    /\ ~game.is_solo
    /\ game.status = "lobby"
    /\ Len(players) = 2

\* C9 as stated: the second join (with the host and one joined player
\* present) succeeds.
C9_SecondJoinSucceeds ==
    [][(JoinStep /\ Len(players) = 2) => resp'.result = "ok"]_vars

\* C10: a read sets the status to expired if and only if the session is
\* multiplayer, no player is connected and the last activity is more than
\* one hour old, or the session is solo and the last activity is more than
\* 30 days old; otherwise the read leaves the status unchanged.
Inactive(seconds) ==
    /\ game.last_activity_at # NoTime
    /\ now - game.last_activity_at > seconds

ShouldExpire ==
    IF game.is_solo THEN Inactive(30 * 24 * 60 * 60)
    ELSE Inactive(60 * 60)
         /\ \A p \in 1..Len(players) : ~players[p].is_connected

C10_LazyExpiration ==
    [][resp'.op = "get_game" =>
         game'.status = IF ShouldExpire THEN "expired" ELSE game.status]_vars

\* a multiplayer session read two hours after its last activity
C10_Witness ==
    /\ resp.op = "get_game"
    /\ ~game.is_solo
    /\ game.status = "expired"
    /\ now - game.last_activity_at = 2 * 60 * 60
    /\ Len(players) = 2

\* the write operations of the REST API
WriteOps ==
    {"join_game", "start_game", "update_game_state", "update_unit_state",
     "update_victory_points", "update_round", "create_unit_manually",
     "detach_unit", "import_army"}

\* C11: a write operation on an expired session is rejected and leaves the
\* session, its players, units and event log unchanged.
C11_ExpiredIsTerminal ==
    [][(game.status = "expired" /\ resp'.op \in WriteOps) =>
         /\ resp'.result # "ok"
         /\ UNCHANGED <<game, players, units, events>>]_vars

\* the broadcasts that came to their end in the last step
BroadcastsDone == IF "done" \in DOMAIN resp.data THEN resp.data.done ELSE {}

\* the connections a room has registered
Registered(r) == {e[2] : e \in Entries(r)}

\* the entries a broadcast is called to reach: the anonymous ones and the
\* identified ones of the players it does not exclude
Targets(f) == {e \in f.start : e[1] = NoId \/ e[1] # f.exclude}

\* the connections registered for the excluded player when it is called
Excluded(f) == {e[2] : e \in {t \in f.start : t[1] # NoId /\ t[1] = f.exclude}}

\* the connections a send of the broadcast failed on
FailedConnections(f) == {s[2] : s \in f.failed}

\* C12: a broadcast that meets send failures still reaches every other
\* eligible connection, and when it returns exactly the connections it
\* failed on have left the registry.
C12_BroadcastIsolation ==
    \A d \in BroadcastsDone :
        d.frame.phase = "returned" =>
            /\ \A e \in Targets(d.frame) \cap Entries(d.before) :
                   e \in Sent(d.frame)
            /\ Registered(d.after) =
                   Registered(d.before) \ FailedConnections(d.frame)

\* C13: when the broadcast of a committed update is over, the request
\* returns its success result and the committed units and log are as the
\* commit left them, whatever happened to the room meanwhile.
C13_BroadcastNeverFailsRequest ==
    [][\A r \in DOMAIN reqs :
          reqs[r].pc = "broadcast" /\ reqs'[r].pc # "broadcast" =>
              /\ resp'.op = reqs[r].op
              /\ resp'.result = "ok"
              /\ UNCHANGED <<units, events>>]_vars

\* the handler of the connection reaches its finally block in this step
EntersFinally(ws) ==
    /\ socks[ws].open
    /\ socks[ws].after # "finally"
    /\ ~socks'[ws].open \/ socks'[ws].after = "finally"

\* the handler of the connection returns in this step
Returns(ws) == socks[ws].open /\ ~socks'[ws].open

\* C14: when the handler of a connection ends, the connection is no longer
\* in the anonymous set nor the value of an identified entry, also when the
\* flag update raised; and unless that update raised, the player it had
\* identified as is flagged not connected when the clean-up starts.
C14_DisconnectCleanup ==
    [][\A ws \in SockIds :
          /\ Returns(ws) => ws \notin Registered(room')
          /\ EntersFinally(ws) /\ resp'.result # "update_failed"
                /\ socks[ws].player_id \in 1..Len(players) =>
                 ~players'[socks[ws].player_id].is_connected]_vars

\* C16: a broadcast that returns with the registry as it found it has
\* tried exactly the anonymous connections and the identified connections
\* of the players it does not exclude, and no broadcast sends to a
\* connection registered for the player it excludes.
C16_BroadcastRecipients ==
    \A d \in BroadcastsDone :
        /\ d.frame.phase = "returned" /\ Entries(d.before) = d.frame.start =>
               Sent(d.frame) = Targets(d.frame)
        /\ \A s \in Sent(d.frame) : s[2] \notin Excluded(d.frame)

\* the handler of the connection takes a "join" message in this step and
\* goes on
Promoted(ws) ==
    /\ socks[ws].pc = "receive"
    /\ resp'.op = "ws_join"
    /\ resp'.id = ws
    /\ socks'[ws].open
    /\ socks'[ws].after # "finally"

\* C15: no connection is anonymous and identified at once, a player id has
\* one identified connection at most, and a join leaves the connection out
\* of the anonymous set and as the one connection of the player it names.
C15_OneConnectionPerPlayer ==
    /\ [](/\ \A e \in Entries(room) : e[1] # NoId => e[2] \notin room.anonymous
          /\ \A d, e \in Entries(room) : d[1] = e[1] /\ d[1] # NoId => d = e)
    /\ [][\A ws \in SockIds :
            Promoted(ws) =>
                /\ ws \notin room'.anonymous
                /\ Entries(room') \cap ({socks'[ws].player_id} \X SockIds) =
                       {<<socks'[ws].player_id, ws>>}]_vars

\* a second connection has identified as a player and taken the place of
\* the first, whose handler still runs
C15_Witness ==
    \E v, w \in SockIds :
        /\ v # w
        /\ socks[v].pc = "receive"
        /\ socks[w].pc = "receive"
        /\ socks[v].player_id = socks[w].player_id
        /\ <<socks[w].player_id, w>> \in Entries(room)
        /\ room.anonymous = {}

\* the messages a client sends, by the step that handles them
MessageOps == {"ws_join", "ws_state_update", "ws_ping", "ws_error"}

\* the handler of the connection takes a message from it in this step
Takes(ws) ==
    /\ socks[ws].pc # "broadcast"
    /\ resp'.op \in MessageOps
    /\ resp'.id = ws

\* C17: a connection to an existing session is sent the state snapshot
\* before its handler takes any message from it.
C17_SnapshotFirst ==
    [][\A ws \in SockIds :
          /\ Takes(ws) => socks[ws].snapshot
          /\ socks[ws].pc = "accepted" /\ socks'[ws].pc = "receive" =>
                 game.exists /\ socks'[ws].snapshot]_vars

\* a connection was sent the snapshot and then its join as a player of the
\* session has been handled
C17_Witness ==
    \E ws \in SockIds :
        /\ socks[ws].snapshot
        /\ resp.op = "ws_join"
        /\ resp.id = ws
        /\ resp.result = "ok"
        /\ socks[ws].player_id \in 1..Len(players)
        /\ players[socks[ws].player_id].is_connected

\* the transitions of the lifecycle state machine
Lifecycle ==
    {<<"lobby", "in_progress">>, <<"in_progress", "paused">>,
     <<"in_progress", "completed">>}
    \cup {<<x, "expired">> : x \in {"lobby", "in_progress", "paused"}}

\* C18: the status of a session changes only along the lifecycle: lobby to
\* in_progress, in_progress to paused or completed, a non-terminal status
\* to expired.
C18_LifecycleOnly ==
    [][game.exists /\ game'.status # game.status =>
           <<game.status, game'.status>> \in Lifecycle]_vars

\* C19: start succeeds only from the lobby with, in multiplayer mode,
\* exactly two players who each own a unit or, in solo mode, a player who
\* owns a unit;
\* it then sets in_progress, round 1 and every player's starting count and
\* points to the number and total cost of the player's units; a start that
\* fails leaves status and round as they were.
C19_StartGame ==
    [][(resp'.op = "start_game" /\ resp' # resp) =>
         IF resp'.result = "ok"
         THEN /\ game.status = "lobby"
              /\ IF game.is_solo
                 THEN \E p \in 1..Len(players) : PlayerUnits(units, p) # {}
                 ELSE /\ Len(players) = 2
                      /\ \A p \in 1..Len(players) : PlayerUnits(units, p) # {}
              /\ game'.status = "in_progress"
              /\ game'.current_round = 1
              /\ \A p \in 1..Len(players) :
                     /\ players'[p].starting_unit_count =
                            Cardinality(PlayerUnits(units, p))
                     /\ players'[p].starting_points =
                            SumCost(units, PlayerUnits(units, p))
         ELSE /\ game'.status = game.status
              /\ game'.current_round = game.current_round]_vars

\* a multiplayer session with armies of different cost was started from a
\* later round, and a second start has failed
C19_Witness ==
    /\ resp.op = "start_game"
    /\ resp.result # "ok"
    /\ ~game.is_solo
    /\ game.status = "in_progress"
    /\ game.current_round = 1
    /\ Len(players) = 2
    /\ players[1].starting_points = 3
    /\ players[1].starting_unit_count = 2
    /\ players[2].starting_points = 1

\* a join is refused with the given error when the session is not in the
\* lobby or has two players, and then adds nothing; otherwise it adds one
\* player, not host and not connected, and one player_joined event
JoinOutcome(error) ==
    resp'.op = "join_game" =>
        IF game.status # "lobby" \/ Len(players) >= 2
        THEN /\ resp'.result = error
             /\ UNCHANGED <<players, events>>
        ELSE /\ resp'.result = "ok"
             /\ Len(players') = Len(players) + 1
             /\ SubSeq(players', 1, Len(players)) = players
             /\ ~players'[Len(players')].is_host
             /\ ~players'[Len(players')].is_connected
             /\ Len(Appended) = 1
             /\ Appended[1].event_type = "player_joined"
             /\ SubSeq(events', 1, Len(events)) = events

FlagStep(u, field, v) ==
    /\ resp'.op = "update_unit_state"
    /\ resp'.id = u
    /\ u \in DOMAIN units
    /\ resp'.data[field] = {v}
    /\ units[u].state[field] = ~v

\* the same for a unit that has attached units
ParentStep(u, field, v) ==
    FlagStep(u, field, v) /\ AttachedHeroes(units, u) # {}

CountType(log, type) ==
    Cardinality({i \in 1..Len(log) : log[i].event_type = type})

\* C21: setting activated_this_round from false to true on an unattached
\* unit with attached units sets the activation flag of every attached unit
\* and appends exactly one unit_activated event for the unit plus exactly
\* one for each attached unit that was not already activated, none for the
\* attached units already activated.
C21_ActivationPropagates ==
    [][\A u \in UnitIds :
         (/\ ParentStep(u, "activated_this_round", TRUE)
          /\ units[u].attached_to_unit_id = NoId)
         => LET H == AttachedHeroes(units, u)
                N == {h \in H : ~units[h].state.activated_this_round}
            IN /\ resp'.result = "ok"
               /\ units'[u].state.activated_this_round
               /\ \A h \in H : units'[h].state.activated_this_round
               /\ Len(events') = Len(events) + 1 + Cardinality(N)
               /\ CountOf(Appended, "unit_activated", u) = 1
               /\ \A h \in N : CountOf(Appended, "unit_activated", h) = 1
               /\ \A h \in H \ N : CountOf(Appended, "unit_activated", h) = 0]_vars

\* a unit was activated with two attached units, one activated before and
\* one not: two unit_activated events in the transaction
C21_Witness ==
    /\ resp.op = "update_unit_state"
    /\ resp.result = "ok"
    /\ resp.data.activated_this_round = {TRUE}
    /\ Cardinality(AttachedHeroes(units, resp.id)) = 2
    /\ Cardinality(LastTransaction) = 2
    /\ \A i \in LastTransaction : events[i].event_type = "unit_activated"
    /\ \E i \in LastTransaction : events[i].target_unit_id = resp.id
    /\ \E i \in LastTransaction :
           events[i].target_unit_id \in AttachedHeroes(units, resp.id)

\* C22: toggling the shaken flag of a unit to a new value v appends one
\* status_shaken (v true) or status_shaken_cleared (v false) event for the
\* unit; afterwards every unit attached to it has shaken = v, with exactly
\* one event of the same kind for each attached unit whose flag differed
\* and none for those that already had v.
C22_ShakenPropagates ==
    [][\A u \in UnitIds, v \in BOOLEAN :
         FlagStep(u, "is_shaken", v)
         => LET H == AttachedHeroes(units, u)
                N == {h \in H : units[h].state.is_shaken # v}
                type == IF v THEN "status_shaken" ELSE "status_shaken_cleared"
            IN /\ resp'.result = "ok"
               /\ units'[u].state.is_shaken = v
               /\ \A h \in H : units'[h].state.is_shaken = v
               /\ Len(events') = Len(events) + 1 + Cardinality(N)
               /\ CountType(Appended, type) = 1 + Cardinality(N)
               /\ CountOf(Appended, type, u) = 1
               /\ \A h \in N : CountOf(Appended, type, h) = 1
               /\ \A h \in H \ N : CountOf(Appended, type, h) = 0]_vars

\* a unit with two attached units was shaken while one of them was shaken
\* already and the other was not: two status_shaken events
C22_Witness ==
    /\ resp.op = "update_unit_state"
    /\ resp.result = "ok"
    /\ resp.data.is_shaken = {TRUE}
    /\ Cardinality(AttachedHeroes(units, resp.id)) = 2
    /\ Cardinality(LastTransaction) = 2
    /\ \A i \in LastTransaction : events[i].event_type = "status_shaken"
    /\ \E i \in LastTransaction : events[i].target_unit_id = resp.id
    /\ \E i \in LastTransaction :
           events[i].target_unit_id \in AttachedHeroes(units, resp.id)

\* C23: raising the wounds_taken of a unit from w to w + d (d > 0) appends
\* exactly d unit_wounded events for that unit, the i-th (i = 0..d-1)
\* carrying wounds_before = w + i and wounds_after = w + i + 1.
C23_OneEventPerWound ==
    [][\A u \in UnitIds, w \in 0..MaxWounds, d \in 1..MaxWounds + 1 :
         (/\ resp'.op = "update_unit_state"
          /\ resp'.id = u
          /\ u \in DOMAIN units
          /\ units[u].state.wounds_taken = w
          /\ resp'.data.wounds_taken = {w + d})
         => /\ resp'.result = "ok"
            /\ units'[u].state.wounds_taken = w + d
            /\ Len(events') = Len(events) + d
            /\ \A i \in 0..d - 1 :
                 /\ IsWoundEvent(Appended[i + 1], u)
                 /\ Appended[i + 1].before = w + i
                 /\ WoundsAfter(Appended[i + 1]) = w + i + 1]_vars

\* a unit that had one wound was raised by two: the rows of the request
\* carry 1 and 2 wounds before
C23_Witness ==
    /\ resp.op = "update_unit_state"
    /\ resp.result = "ok"
    /\ resp.id \in DOMAIN units
    /\ resp.data.wounds_taken = {units[resp.id].state.wounds_taken}
    /\ Cardinality(LastTransaction) = 2
    /\ {events[i].before : i \in LastTransaction} = {1, 2}
    /\ \A i \in LastTransaction : IsWoundEvent(events[i], resp.id)

\* C24: the explicit detach of a unit that has no parent fails with a
\* validation error (InvalidState) and changes nothing; otherwise it clears
\* the unit's attached-to reference, appends exactly one unit_detached
\* event targeting the unit, and leaves the former parent and all other
\* units unchanged.
C24_DetachUnit ==
    [][\A u \in UnitIds :
         (resp'.op = "detach_unit" /\ resp'.id = u /\ u \in DOMAIN units)
         => IF units[u].attached_to_unit_id = NoId
            THEN /\ resp'.result = "ValidationException"
                 /\ UNCHANGED <<game, players, units, events>>
            ELSE /\ resp'.result = "ok"
                 /\ units' = [units EXCEPT ![u].attached_to_unit_id = NoId]
                 /\ Len(events') = Len(events) + 1
                 /\ SubSeq(events', 1, Len(events)) = events
                 /\ Appended[1].event_type = "unit_detached"
                 /\ Appended[1].target_unit_id = u
                 /\ UNCHANGED <<game, players>>]_vars

\* one of the two units attached to a shaken unit was detached: the other
\* is still attached, and the detached unit is still shaken
C24_Witness ==
    /\ resp.op = "detach_unit"
    /\ resp.result = "ok"
    /\ units[resp.id].attached_to_unit_id = NoId
    /\ units[resp.id].state.is_shaken
    /\ events[Len(events)].event_type = "unit_detached"
    /\ events[Len(events)].target_unit_id = resp.id
    /\ \E p \in DOMAIN units :
           /\ units[p].state.is_shaken
           /\ AttachedHeroes(units, p) # {}
           /\ units[p].player_id = units[resp.id].player_id

\* C25: clear-all-units for a player succeeds only while the session is in
\* the lobby; on success all the units of the player are deleted, the
\* player's starting unit count and starting points are 0, the units of
\* the other player are untouched, and exactly one custom event recording
\* the number and total points removed is appended (also when the player
\* had no units); in any other status it fails and deletes nothing.
C25_ClearAllUnits ==
    [][\A p \in PlayerIds :
         (/\ resp'.op = "clear_all_units"
          /\ resp'.id = p
          /\ p \in 1..Len(players))
         => LET D == PlayerUnits(units, p)
            IN IF game.status = "lobby"
               THEN /\ resp'.result = "ok"
                    /\ DOMAIN units' = DOMAIN units \ D
                    /\ players'[p].starting_unit_count = 0
                    /\ players'[p].starting_points = 0
                    /\ \A u \in DOMAIN units \ D : units'[u] = units[u]
                    /\ Len(events') = Len(events) + 1
                    /\ Appended[1].event_type = "custom"
                    /\ Appended[1].player_id = p
                    /\ resp'.data.units_cleared = Cardinality(D)
                    /\ resp'.data.points_cleared = SumCost(units, D)
               ELSE /\ resp'.result # "ok"
                    /\ UNCHANGED <<players, units, events>>]_vars

\* the rows of a log without their transaction ranks
Rows(log) == [i \in 1..Len(log) |-> [log[i] EXCEPT !.txn = 0]]

RoundStarted(log) == Matching(log, LAMBDA e : e.event_type = "round_started")

\* the position of the last row among those at the positions in M
Latest(M) == CHOOSE i \in M : \A j \in M : j <= i

RoundStep(delta) ==
    /\ resp'.op = "update_round"
    /\ resp'.data.delta = delta

\* C26: a positive round delta adds it to current_round and appends
\* exactly one round_started event; a negative delta lowers current_round,
\* clamped to a minimum of 1, and deletes the single most recent
\* round_started event if there is one; so +1 followed by -1 restores the
\* round and the round_started events.
C26_RoundDelta ==
    [][\A delta \in (-MaxDelta..MaxDelta) \ {0} :
         RoundStep(delta) =>
           /\ resp'.result = "ok"
           /\ IF delta > 0
              THEN /\ game'.current_round = game.current_round + delta
                   /\ Len(events') = Len(events) + 1
                   /\ Rows(SubSeq(events', 1, Len(events))) = Rows(events)
                   /\ Appended[1].event_type = "round_started"
              ELSE /\ game'.current_round =
                          Max(1, game.current_round + delta)
                   /\ Rows(events') =
                          IF RoundStarted(events) = {} THEN Rows(events)
                          ELSE Rows(RemoveIdx(events,
                                              {Latest(RoundStarted(events))}))
           /\ (/\ delta = -1
               /\ resp.op = "update_round"
               /\ resp.data.delta = 1)
              => /\ game'.current_round = resp.data.round_before
                 /\ Rows(events') = Rows(SubSeq(events, 1, Len(events) - 1))]_vars

\* a fetch answered right after another fetch, with nothing but time in
\* between
SecondFetch ==
    /\ resp.op = "get_game"
    /\ resp'.op = "get_game"
    /\ now' = now

C28_RetryOnCollision ==
    [][(/\ resp'.op = "create_game"
        /\ resp'.data.code \in game.codes)
       => /\ resp'.result = "ok"
          /\ game'.exists
          /\ game'.code \notin game.codes]_vars

\* the positions of the unit_wounded rows of a unit
WoundRowsOf(log, u) == Matching(log, LAMBDA e : IsWoundEvent(e, u))

\* a request that only lowers the wounds of unit u, by d, is answered
LoweringStep(u, d) ==
    /\ u \in DOMAIN units
    /\ resp'.op = "update_unit_state"
    /\ resp'.id = u
    /\ resp'.data = [NoUpdate EXCEPT
                       !.wounds_taken = {units[u].state.wounds_taken - d}]

\* C29: lowering the wounds of a unit by d examines the d most recent
\* unit_wounded events of the unit (all of them when there are fewer): each
\* one created within the last 30 seconds is deleted, each older one is
\* kept and one unit_healed event is appended for it; no other event is
\* deleted or added.
C29_LoweringWounds ==
    [][\A u \in UnitIds, d \in 1..MaxWounds :
         LoweringStep(u, d) =>
           /\ resp'.result = "ok"
           /\ units'[u].state.wounds_taken = units[u].state.wounds_taken - d
           /\ \E S \in SUBSET WoundRowsOf(events, u) :
                LET M == WoundRowsOf(events, u)
                    D == {i \in S : now - events[i].created_at <= 30}
                    kept == Len(events) - Cardinality(D)
                IN /\ Cardinality(S) = Min(d, Cardinality(M))
                   /\ \A i \in S, j \in M \ S : events[j].txn <= events[i].txn
                   /\ Len(events') = kept + Cardinality(S \ D)
                   /\ Rows(SubSeq(events', 1, kept)) = Rows(RemoveIdx(events, D))
                   /\ \A j \in (kept + 1)..Len(events') :
                        /\ events'[j].event_type = "unit_healed"
                        /\ events'[j].target_unit_id = u
                        /\ events'[j].created_at = now]_vars

\* the wounds of a unit were just lowered to 0, 60 seconds after its first
\* wound: the row of that wound is kept and a unit_healed row follows it
C29_Witness ==
    \E u \in DOMAIN units :
        /\ resp.op = "update_unit_state"
        /\ resp.id = u
        /\ resp.result = "ok"
        /\ resp.data.wounds_taken = {0}
        /\ units[u].state.wounds_taken = 0
        /\ now = 60
        /\ \E i \in WoundRowsOf(events, u) : events[i].created_at = 0
        /\ events[Len(events)].event_type = "unit_healed"
        /\ events[Len(events)].target_unit_id = u
        /\ events[Len(events)].created_at = 60

\* C30: a bulk round/status update that raises current_round sets
\* has_finished_activations to false for every player and
\* activated_this_round and is_fatigued to false for every unit state,
\* leaves every is_shaken flag (and the rest of each unit) as it was, and
\* appends one round_started event; an update that does not raise the
\* round resets nothing.
C30_BulkRoundReset ==
    [][(resp'.op = "update_game_state" /\ resp'.result = "ok") =>
         IF /\ IsSome(resp'.data.current_round)
            /\ Val(resp'.data.current_round) > game.current_round
         THEN /\ players' = [p \in DOMAIN players |->
                               [players[p] EXCEPT
                                  !.has_finished_activations = FALSE]]
              /\ units' = [u \in DOMAIN units |->
                             [units[u] EXCEPT
                                !.state.activated_this_round = FALSE,
                                !.state.is_fatigued = FALSE]]
              /\ \A u \in DOMAIN units :
                   units'[u].state.is_shaken = units[u].state.is_shaken
              /\ Rows(SubSeq(events', 1, Len(events))) = Rows(events)
              /\ CountType(events', "round_started")
                   = CountType(events, "round_started") + 1
         ELSE /\ players' = players
              /\ units' = units
              /\ CountType(events', "round_started")
                   = CountType(events, "round_started")]_vars

\* the round was just raised by a bulk update in a session with a unit
\* that had been activated and is shaken: it is shaken still, and neither
\* activated nor fatigued
C30_Witness ==
    /\ resp.op = "update_game_state"
    /\ resp.data.current_round = {2}
    /\ game.current_round = 2
    /\ CountType(events, "round_started") = 1
    /\ \E u \in DOMAIN units :
         /\ units[u].state.is_shaken
         /\ ~units[u].state.activated_this_round
         /\ ~units[u].state.is_fatigued
         /\ \E i \in 1..Len(events) :
              /\ events[i].event_type = "unit_activated"
              /\ events[i].target_unit_id = u

\* the operations that change a session
Mutations ==
    {"join_game", "start_game", "update_game_state", "update_unit_state",
     "create_unit_manually", "clear_all_units", "detach_unit",
     "update_victory_points", "update_round", "import_army"}

\* C31: every successful mutation of a session (join, start, bulk
\* round/status update, update unit state, manual unit creation, clear
\* units, detach, victory-point delta, round delta, army import) sets the
\* last-activity timestamp of the session to the time of the mutation.
C31_ActivityOnEveryMutation ==
    [][(resp'.op \in Mutations /\ resp'.result = "ok")
       => game'.last_activity_at = now']_vars

\* every attached unit belongs to the player of the unit it is attached to
SameOwner(us) ==
    \A u \in DOMAIN us :
        us[u].attached_to_unit_id # NoId
        => /\ us[u].attached_to_unit_id \in DOMAIN us
           /\ us[us[u].attached_to_unit_id].player_id = us[u].player_id

\* a manual unit creation for an existing player, with an attach-to unit
\* of another player, is answered
CrossAttach ==
    /\ resp'.op = "create_unit_manually"
    /\ resp'.data.player_id \in 1..Len(players)
    /\ resp'.data.attached_to_unit_id \in DOMAIN units
    /\ units[resp'.data.attached_to_unit_id].player_id # resp'.data.player_id

\* the units an army import created
Imported == IF resp'.op = "import_army" /\ resp'.result = "ok"
            THEN DOMAIN units' \ DOMAIN units ELSE {}

C33_DepthOne ==
    \A u \in DOMAIN units :
        units[u].attached_to_unit_id # NoId
        => /\ units[u].attached_to_unit_id \in DOMAIN units
           /\ units[units[u].attached_to_unit_id].attached_to_unit_id = NoId

\* an update of unit u is answered with success
UnitStep(u) ==
    /\ u \in DOMAIN units
    /\ resp'.op = "update_unit_state"
    /\ resp'.result = "ok"
    /\ resp'.id = u

\* C34: the sub-updates of update-unit-state are independent: a request
\* that carries no transport field leaves the transport reference of the
\* unit unchanged, leaves its deployment status unchanged unless the
\* request sets one, and appends no unit_embarked or unit_disembarked
\* event, also when the unit is embarked in a transport.
C34_NoTransportField ==
    [][\A u \in UnitIds :
         (UnitStep(u) /\ resp'.data.transport_id = {})
         => /\ units'[u].state.transport_id = units[u].state.transport_id
            /\ resp'.data.deployment_status = {}
               => units'[u].state.deployment_status
                    = units[u].state.deployment_status
            /\ CountType(events', "unit_embarked")
                 = CountType(events, "unit_embarked")
            /\ CountType(events', "unit_disembarked")
                 = CountType(events, "unit_disembarked")]_vars

\* C35: after a successful update-unit-state request with
\* deployment_status = destroyed the stored deployment status of the unit
\* is destroyed, whatever the state of the unit was before (deployed, in
\* ambush, in reserve, or embarked with a transport reference).
C35_DestroyedIsStored ==
    [][\A u \in UnitIds :
         (UnitStep(u) /\ resp'.data.deployment_status = {"destroyed"})
         => units'[u].state.deployment_status = "destroyed"]_vars

\* connection ws is the identified connection of player p in the room
RegisteredAs(r, p, ws) ==
    p \in DOMAIN r.connections /\ r.connections[p] = ws

\* connection first identified as p and was replaced as p's identified
\* connection by connection second, which is open
Replaced(first, second, p) ==
    /\ first # second
    /\ p \in 1..Len(players)
    /\ socks[first].open /\ socks[first].player_id = p
    /\ socks[second].open /\ socks[second].player_id = p
    /\ RegisteredAs(room, p, second)
    /\ players[p].is_connected

\* C36: when a second connection identified as player p, replacing the
\* first, and the first connection then closes, the second connection
\* remains registered as p's identified connection in the room and p's
\* live-connection flag remains true.
C36_ReplacedConnectionCloses ==
    [][\A first \in SockIds, second \in SockIds, p \in PlayerIds :
         (/\ Replaced(first, second, p)
          /\ resp'.op = "ws_close"
          /\ resp'.id = first)
         => /\ RegisteredAs(room', p, second)
            /\ players'[p].is_connected]_vars

\* C40: a player's live-connection flag is true only while an identified
\* connection for that player is registered in the room: in every
\* reachable state a player with no registered connection has the flag
\* false.
C40_ConnectedOnlyWhileRegistered ==
    \A p \in 1..Len(players) :
        players[p].is_connected => p \in DOMAIN room.connections

\* C37: the number of players of a session never exceeds 2 in any
\* reachable state, also when two or more join requests for the same lobby
\* session are processed concurrently.
C37_AtMostTwoPlayers == Len(players) <= 2

\* a request that is not awaiting its broadcast is answered with an error
FailsAtOnce ==
    /\ resp'.op \in Mutations
    /\ resp' # resp
    /\ resp'.result \notin {"ok", "awaiting"}
    /\ \A r \in DOMAIN reqs : reqs[r].pc # "broadcast"

\* the request of slot r, which was awaiting its broadcast, is answered
\* with an error
FailsAfterBroadcast(r) ==
    /\ reqs[r].pc = "broadcast"
    /\ reqs'[r].pc # "broadcast"
    /\ resp'.result # "ok"

\* C38: a mutation request that fails with an error is atomic: it leaves
\* the persisted entities and the event log as they were before the
\* request; for an update of a unit, the unit and the events of the kind
\* the request logs are as the request loaded them.
C38_FailedRequestIsAtomic ==
    [][/\ FailsAtOnce => UNCHANGED <<game, players, units, events>>
       /\ \A r \in DOMAIN reqs :
            FailsAfterBroadcast(r) =>
              /\ units'[reqs[r].id] = reqs[r].seen_units[reqs[r].id]
              /\ CountOf(events', "status_fatigued", reqs[r].id)
                   = CountOf(reqs[r].seen_events, "status_fatigued",
                             reqs[r].id)]_vars

\* the vp_changed rows with player p as actor
VpRowsOf(p) ==
    {i \in 1..Len(events) :
        events[i].event_type = "vp_changed" /\ events[i].player_id = p}

\* C39: after any sequence of victory-point deltas applied one at a time,
\* the number of vp_changed events with a player as actor equals the
\* victory points of that player, for every player.
C39_VpEventsMatchPoints ==
    \A p \in 1..Len(players) :
        Cardinality(VpRowsOf(p)) = players[p].victory_points

\* a point was just taken from a player who keeps one, while the other
\* player has points too
C39_Witness ==
    /\ resp.op = "update_victory_points"
    /\ resp.result = "ok"
    /\ resp.data.delta = -1
    /\ players[resp.id].victory_points = 1
    /\ Cardinality(VpRowsOf(resp.id)) = 1
    /\ \E q \in 1..Len(players) :
         q # resp.id /\ players[q].victory_points > 0
====
